---- MODULE Spec2Model ----
(***************************************************************************)
(* Model of the quarter-over-quarter diff engine of thirteen_f             *)
(* (src/thirteen_f/analysis/diff.py), of the signal detectors              *)
(* (analysis/signals.py) and the keyword clustering                        *)
(* (analysis/clustering.py) that the fund report runs over the diffs, and  *)
(* of the part of the storage layer that feeds them                        *)
(* (src/thirteen_f/storage/database.py).                                   *)
(*                                                                         *)
(* Conventions                                                             *)
(*   - A Python Optional is a sequence of length 0 (None) or 1 (a value).  *)
(*   - A Python float is an exact rational [num, den] with den > 0; the    *)
(*     rounding of IEEE doubles is not modelled.                           *)
(*   - A Python exception is recorded in the variable exception.           *)
(*   - The iteration order of a Python set of strings depends on the       *)
(*     per-process hash seed; it is a nondeterministic choice.             *)
(*   - value_usd counts in units of USD 1,000,000, so that the totals of   *)
(*     portfolios with positions above USD 20,000,000 stay small; the      *)
(*     thresholds that are amounts are in the same unit.                   *)
(***************************************************************************)
EXTENDS Integers, Sequences, FiniteSets, TLC

VARIABLES filings, holdings, config, result, exception, report

vars == <<filings, holdings, config, result, exception, report>>

(***************************************************************************)
(* Optional values                                                         *)
(***************************************************************************)
None == <<>>

Some(x) == <<x>>

Val(o) == o[1]

\* Python `o or 0` for an Optional[int]
OrZero(o) == IF o = None THEN 0 ELSE Val(o)

\* Python truthiness of an Optional[int]: None and 0 are falsy
Truthy(o) == o # None /\ Val(o) # 0

(***************************************************************************)
(* Floats as exact rationals                                               *)
(***************************************************************************)
Frac(n, d) == [num |-> n, den |-> d]

\* The value a failed division leaves behind; den = 0 never occurs otherwise.
ZeroDivisionError == Frac(0, 0)

\* Python true division n / d of two ints
Div(n, d) ==
    IF d = 0 THEN ZeroDivisionError
    ELSE IF d < 0 THEN Frac(-n, -d)
    ELSE Frac(n, d)

FLess(a, b) == a.num * b.den < b.num * a.den

FLeq(a, b) == a.num * b.den <= b.num * a.den

FEq(a, b) == a.num * b.den = b.num * a.den

FAdd(a, b) ==
    IF a.den = b.den THEN Frac(a.num + b.num, a.den)
    ELSE Frac(a.num * b.den + b.num * a.den, a.den * b.den)

FMul(a, b) == Frac(a.num * b.num, a.den * b.den)

RECURSIVE FSum(_)
\* Python sum() over a list of floats; sum([]) is 0
FSum(s) == IF s = <<>> THEN Frac(0, 1) ELSE FAdd(FSum(SubSeq(s, 1, Len(s) - 1)), s[Len(s)])

RECURSIVE ISum(_)
\* Python sum() over a list of ints
ISum(s) == IF s = <<>> THEN 0 ELSE ISum(SubSeq(s, 1, Len(s) - 1)) + s[Len(s)]

Abs(x) == IF x < 0 THEN -x ELSE x

(***************************************************************************)
(* Sequences                                                               *)
(***************************************************************************)
\* A function over 1..n as a sequence value (evaluated once, not on every access)
List(f) == <<>> \o f

RECURSIVE SelectIdx(_, _)
\* the indices of 1..n that are in the set keep, ascending
SelectIdx(keep, n) ==
    IF n = 0 THEN <<>>
    ELSE IF n \in keep THEN Append(SelectIdx(keep, n - 1), n)
    ELSE SelectIdx(keep, n - 1)

\* Python [x for x in s if x's index is in keep]
Filter(s, keep) == LET idx == SelectIdx(keep, Len(s)) IN List([i \in 1..Len(idx) |-> s[idx[i]]])

\* Python s[:n]
Take(s, n) == SubSeq(s, 1, IF Len(s) < n THEN Len(s) ELSE n)

RECURSIVE StableSort(_, _, _)
\* Python sorted(): the permutation of 1..n that sorts the float keys, ascending
\* (descending when reverse); entries with equal keys keep their input order.
StableSort(keys, reverse, n) ==
    IF n = 0 THEN <<>>
    ELSE LET done == StableSort(keys, reverse, n - 1)
             before(i) == IF reverse THEN FLess(keys[done[i]], keys[n])
                                     ELSE FLess(keys[n], keys[done[i]])
             later == {i \in 1..Len(done) : before(i)}
             pos == IF later = {} THEN Len(done) + 1
                    ELSE CHOOSE i \in later : \A j \in later : i <= j
         IN  SubSeq(done, 1, pos - 1) \o <<n>> \o SubSeq(done, pos, Len(done))

\* Python sorted(s, key=..., reverse=...), keys[i] being the key of s[i]
Sorted(s, keys, reverse) ==
    LET p == StableSort(keys, reverse, Len(s)) IN List([i \in 1..Len(s) |-> s[p[i]]])

\* Python sorted(...)[:n]
SortedTop(s, keys, reverse, n) == Take(Sorted(s, keys, reverse), n)

(***************************************************************************)
(* Records                                                                 *)
(***************************************************************************)
\* The fields of HoldingRecord that the diff engine and the UNIQUE constraint read.
HoldingRecord(issuer_name, title_of_class, cusip, value_usd, shares_or_principal, shares_type, put_call) ==
    [issuer_name |-> issuer_name, title_of_class |-> title_of_class, cusip |-> cusip,
     value_usd |-> value_usd, shares_or_principal |-> shares_or_principal,
     shares_type |-> shares_type, put_call |-> put_call]

\* The starter thresholds of Config; the weights are floats.
Config(starter_weight_min, starter_weight_max, starter_value_threshold) ==
    [starter_weight_min |-> starter_weight_min, starter_weight_max |-> starter_weight_max,
     starter_value_threshold |-> starter_value_threshold]

\* The ids of the filings of the tracked fund; a larger id is a later period.
FilingIds == {1, 2}

Digits == <<"0", "1", "2", "3", "4", "5", "6", "7", "8", "9">>

\* FilingRecord.period_of_report of the filing with this id: the ends of the
\* quarters from "2024-09-30" (id 1) on
period_of_report(id) ==
    LET q == id + 1
    IN  "202" \o Digits[4 + (q \div 4) + 1] \o "-"
            \o <<"03-31", "06-30", "09-30", "12-31">>[(q % 4) + 1]

\* The fields of FilingRecord that the diff engine reads.
FilingRecord(id) == [id |-> id, period_of_report |-> period_of_report(id)]

fund_id == 1

fund_name == "Test Fund"

(***************************************************************************)
(* Storage: the holdings table                                             *)
(***************************************************************************)
\* UNIQUE(filing_id, cusip, title_of_class, put_call, shares_type) within one
\* filing: SQLite treats NULLs as distinct, so a row whose put_call is NULL
\* never conflicts.
Conflicts(r, h) ==
    /\ h.put_call # None
    /\ r.cusip = h.cusip
    /\ r.title_of_class = h.title_of_class
    /\ r.put_call = h.put_call
    /\ r.shares_type = h.shares_type

\* One INSERT ... ON CONFLICT DO NOTHING. The rows of a filing are kept in the
\* order the query of get_holdings_for_filing returns them: value_usd
\* descending, rows of equal value in rowid (insertion) order.
InsertRow(rows, h) ==
    IF \E i \in 1..Len(rows) : Conflicts(rows[i], h) THEN rows
    ELSE LET ahead == {i \in 1..Len(rows) : rows[i].value_usd >= h.value_usd}
             n == Cardinality(ahead)
         IN  SubSeq(rows, 1, n) \o <<h>> \o SubSeq(rows, n + 1, Len(rows))

RECURSIVE insert_holdings(_, _)
\* Database.insert_holdings: the rows of the filing after inserting the batch
insert_holdings(rows, batch) ==
    IF batch = <<>> THEN rows
    ELSE insert_holdings(InsertRow(rows, Head(batch)), Tail(batch))

\* Database.get_holdings_for_filing
get_holdings_for_filing(filing_id) == holdings[filing_id]

(***************************************************************************)
(* The diff engine                                                         *)
(***************************************************************************)
\* The length of the ranked lists
TopN == 10

\* The number of weights summed by concentration_top5
ConcTop5 == 5

\* The number of weights summed by concentration_top10
ConcTop10 == 10

\* _holding_key without the option flag: a put matches the common stock
holding_key_NoPutCall(h) == h.cusip \o "|" \o h.title_of_class

\* _holding_key by cusip alone, as detect_signals keys its histories
holding_key_CusipOnly(h) == h.cusip

\* _holding_key
holding_key(h) ==
    LET put_call == IF h.put_call = None \/ h.put_call = Some("") THEN "NONE" ELSE Val(h.put_call)
    IN  h.cusip \o "|" \o h.title_of_class \o "|" \o put_call

\* _is_starter with `<=` for `<` on the value and `<` for `<=` on the weight
is_starter_Boundaries(weight, value, cfg) ==
    IF value # None /\ Val(value) <= cfg.starter_value_threshold THEN TRUE
    ELSE IF weight # None
              /\ FLess(cfg.starter_weight_min, Val(weight))
              /\ FLess(Val(weight), cfg.starter_weight_max) THEN TRUE
    ELSE FALSE

\* _is_starter
is_starter(weight, value, cfg) ==
    IF value # None /\ Val(value) < cfg.starter_value_threshold THEN TRUE
    ELSE IF weight # None
              /\ FLeq(cfg.starter_weight_min, Val(weight))
              /\ FLeq(Val(weight), cfg.starter_weight_max) THEN TRUE
    ELSE FALSE

\* {_holding_key(h): h for h in hs}.get(key): the last holding with this key
KeyLookup(hs, key) ==
    LET idx == {i \in 1..Len(hs) : holding_key(hs[i]) = key}
    IN  IF idx = {} THEN None ELSE Some(hs[CHOOSE i \in idx : \A j \in idx : j <= i])

\* set(prev_by_key.keys()) | set(now_by_key.keys())
AllKeys(holdings_prev, holdings_now) ==
    {holding_key(holdings_prev[i]) : i \in 1..Len(holdings_prev)}
        \cup {holding_key(holdings_now[i]) : i \in 1..Len(holdings_now)}

\* sum(h.value_usd for h in hs)
TotalValue(hs) == ISum(List([i \in 1..Len(hs) |-> hs[i].value_usd]))

\* prev_weight / now_weight: value / total, None when value or total is falsy
Weight(value, total) ==
    IF Truthy(value) /\ total # 0 THEN Some(Div(Val(value), total)) ELSE None

\* growth_rate relative to the current value instead of the prior one
GrowthRate_OverNow(prev_value, now_value) ==
    IF Truthy(prev_value) /\ Val(prev_value) > 0 /\ Truthy(now_value)
    THEN Some(Div(Val(now_value) - Val(prev_value), Val(now_value)))
    ELSE None

\* growth_rate testing the truthiness of now_value, as the weights do
GrowthRate_Truthy(prev_value, now_value) ==
    IF Truthy(prev_value) /\ Val(prev_value) > 0 /\ Truthy(now_value)
    THEN Some(Div(Val(now_value) - Val(prev_value), Val(prev_value)))
    ELSE None

\* growth_rate: (now - prev) / prev when prev_value is truthy and positive
GrowthRate(prev_value, now_value) ==
    IF Truthy(prev_value) /\ Val(prev_value) > 0 /\ now_value # None
    THEN Some(Div(Val(now_value) - Val(prev_value), Val(prev_value)))
    ELSE None

\* portfolio_impact without the test of its denominator
PortfolioImpact_Unguarded(delta_value, total_prev) == Some(Div(delta_value, total_prev))

\* portfolio_impact: delta_value / total_prev when total_prev > 0
PortfolioImpact(delta_value, total_prev) ==
    IF total_prev > 0 THEN Some(Div(delta_value, total_prev)) ELSE None

\* The classification chain testing the values instead of the presence of the
\* holdings: a holding worth 0 counts as absent
ChangeType_ByValue(h_prev, h_now, delta_value) ==
    LET held(h) == h # None /\ Val(h).value_usd # 0
    IN  IF ~held(h_prev) /\ held(h_now) THEN "NEW"
        ELSE IF held(h_prev) /\ ~held(h_now) THEN "EXIT"
        ELSE IF delta_value > 0 THEN "INCREASE"
        ELSE IF delta_value < 0 THEN "DECREASE"
        ELSE "UNCHANGED"

\* The classification chain with `>=` for `>`: an equal value is an INCREASE
ChangeType_NoUnchanged(h_prev, h_now, delta_value) ==
    IF h_prev = None /\ h_now # None THEN "NEW"
    ELSE IF h_prev # None /\ h_now = None THEN "EXIT"
    ELSE IF delta_value >= 0 THEN "INCREASE"
    ELSE "DECREASE"

\* The classification chain; h_prev and h_now are Optional[HoldingRecord]
ChangeType(h_prev, h_now, delta_value) ==
    IF h_prev = None /\ h_now # None THEN "NEW"
    ELSE IF h_prev # None /\ h_now = None THEN "EXIT"
    ELSE IF delta_value > 0 THEN "INCREASE"
    ELSE IF delta_value < 0 THEN "DECREASE"
    ELSE "UNCHANGED"

\* The body of the loop `for key in all_keys`: the PositionDiff of one key
PositionDiff(key, holdings_prev, holdings_now, total_prev, total_now, cfg) ==
    LET h_prev == KeyLookup(holdings_prev, key)
        h_now == KeyLookup(holdings_now, key)
        prev_value == IF h_prev # None THEN Some(Val(h_prev).value_usd) ELSE None
        now_value == IF h_now # None THEN Some(Val(h_now).value_usd) ELSE None
        prev_shares == IF h_prev # None THEN Some(Val(h_prev).shares_or_principal) ELSE None
        now_shares == IF h_now # None THEN Some(Val(h_now).shares_or_principal) ELSE None
        delta_value == OrZero(now_value) - OrZero(prev_value)
        delta_shares == OrZero(now_shares) - OrZero(prev_shares)
        prev_weight == Weight(prev_value, total_prev)
        now_weight == Weight(now_value, total_now)
        ref == IF h_now # None THEN Val(h_now) ELSE Val(h_prev)
    IN  [cusip |-> ref.cusip,
         issuer_name |-> ref.issuer_name,
         title_of_class |-> ref.title_of_class,
         prev_value_usd |-> prev_value,
         now_value_usd |-> now_value,
         delta_value_usd |-> delta_value,
         prev_shares |-> prev_shares,
         now_shares |-> now_shares,
         delta_shares |-> delta_shares,
         prev_weight |-> prev_weight,
         now_weight |-> now_weight,
         growth_rate |-> GrowthRate(prev_value, now_value),
         portfolio_impact |-> PortfolioImpact(delta_value, total_prev),
         change_type |-> ChangeType(h_prev, h_now, delta_value),
         is_starter |-> is_starter(now_weight, now_value, cfg),
         put_call |-> ref.put_call]

\* [d for d in diffs if d.change_type == change_type]
Categorize(diffs, change_type) ==
    Filter(diffs, {i \in 1..Len(diffs) : diffs[i].change_type = change_type})

\* adds = [d for d in diffs if d.delta_value_usd > 0]
Adds(diffs) == Filter(diffs, {i \in 1..Len(diffs) : diffs[i].delta_value_usd > 0})

\* The cuts without the positions that were sold out
Cuts_NoExits(diffs) ==
    Filter(diffs, {i \in 1..Len(diffs) :
        diffs[i].delta_value_usd < 0 /\ diffs[i].change_type # "EXIT"})

\* cuts = [d for d in diffs if d.delta_value_usd < 0]
Cuts(diffs) == Filter(diffs, {i \in 1..Len(diffs) : diffs[i].delta_value_usd < 0})

\* Python `f or 0` for an Optional[float]: None and 0.0 are falsy
FloatOrZero(o) == IF o = None \/ Val(o).num = 0 THEN Frac(0, 1) ELSE Val(o)

\* The ten-entry list cut before it is ordered: sorted(ds[:10], key=...)
TopByValue_TruncateFirst(ds, reverse) ==
    LET first == Take(ds, TopN)
    IN  Sorted(first, List([i \in 1..Len(first) |-> Frac(first[i].delta_value_usd, 1)]), reverse)

\* sorted(ds, key=lambda d: d.delta_value_usd, reverse=...)[:10]
TopByValue(ds, reverse) ==
    SortedTop(ds, List([i \in 1..Len(ds) |-> Frac(ds[i].delta_value_usd, 1)]), reverse, TopN)

\* The growth ranking without its filter: sorted(ds, key=lambda d: d.growth_rate or 0)[:10]
TopByGrowthRate_Unfiltered(ds, reverse, exclude_new) ==
    SortedTop(ds, List([i \in 1..Len(ds) |-> FloatOrZero(ds[i].growth_rate)]), reverse, TopN)

\* sorted(ds with a growth rate, key=lambda d: d.growth_rate or 0, reverse=...)[:10];
\* the adds also leave out NEW positions
TopByGrowthRate(ds, reverse, exclude_new) ==
    LET with_growth == Filter(ds, {i \in 1..Len(ds) :
                           /\ ds[i].growth_rate # None
                           /\ (exclude_new => ds[i].change_type # "NEW")})
    IN  SortedTop(with_growth,
                  List([i \in 1..Len(with_growth) |-> FloatOrZero(with_growth[i].growth_rate)]),
                  reverse, TopN)

\* sorted(ds with an impact, key=lambda d: d.portfolio_impact or 0, reverse=...)[:10]
TopByPortfolioImpact(ds, reverse) ==
    LET with_impact == Filter(ds, {i \in 1..Len(ds) : ds[i].portfolio_impact # None})
    IN  SortedTop(with_impact,
                  List([i \in 1..Len(with_impact) |-> FloatOrZero(with_impact[i].portfolio_impact)]),
                  reverse, TopN)

\* new_starters = [d for d in new_positions if d.is_starter]
NewStarters(new_positions) ==
    Filter(new_positions, {i \in 1..Len(new_positions) : new_positions[i].is_starter})

\* increased_starters with `and` for `or` between the two thresholds
IncreasedStarters_BothThresholds(increased) ==
    Filter(increased, {i \in 1..Len(increased) :
        /\ increased[i].is_starter
        /\ increased[i].growth_rate # None
        /\ FLeq(Frac(1, 1), Val(increased[i].growth_rate))
        /\ increased[i].portfolio_impact # None
        /\ FLeq(Frac(5, 10000), Val(increased[i].portfolio_impact))})

\* increased_starters: starters with growth_rate >= 1.0 or portfolio_impact >= 0.0005
IncreasedStarters(increased) ==
    Filter(increased, {i \in 1..Len(increased) :
        /\ increased[i].is_starter
        /\ \/ /\ increased[i].growth_rate # None
              /\ FLeq(Frac(1, 1), Val(increased[i].growth_rate))
           \/ /\ increased[i].portfolio_impact # None
              /\ FLeq(Frac(5, 10000), Val(increased[i].portfolio_impact))})

\* The current-side weights in ascending order: sorted(...) without reverse=True
WeightsNow_Ascending(holdings_now, total_now) ==
    LET ws == IF total_now > 0
              THEN List([i \in 1..Len(holdings_now) |-> Div(holdings_now[i].value_usd, total_now)])
              ELSE <<>>
    IN  Sorted(ws, ws, FALSE)

\* weights_now = sorted([h.value_usd / total_now for h in holdings_now if total_now > 0],
\*                      reverse=True)
WeightsNow(holdings_now, total_now) ==
    LET ws == IF total_now > 0
              THEN List([i \in 1..Len(holdings_now) |-> Div(holdings_now[i].value_usd, total_now)])
              ELSE <<>>
    IN  Sorted(ws, ws, TRUE)

\* The concentration without the fallback for fewer than n weights
Concentration_NoFallback(weights_now, n) ==
    IF Len(weights_now) >= n THEN FSum(Take(weights_now, n)) ELSE Frac(0, 1)

\* sum(weights_now[:n]) if len(weights_now) >= n else sum(weights_now)
Concentration(weights_now, n) ==
    IF Len(weights_now) >= n THEN FSum(Take(weights_now, n)) ELSE FSum(weights_now)

\* The Herfindahl index over the ten largest weights only
Herfindahl_Top10(weights_now) ==
    IF weights_now # <<>>
    THEN FSum(List([i \in 1..Len(Take(weights_now, ConcTop10)) |->
                       FMul(weights_now[i], weights_now[i])]))
    ELSE Frac(0, 1)

\* sum(w * w for w in weights_now) if weights_now else 0.0
Herfindahl(weights_now) ==
    IF weights_now # <<>>
    THEN FSum(List([i \in 1..Len(weights_now) |-> FMul(weights_now[i], weights_now[i])]))
    ELSE Frac(0, 1)

\* compute_quarter_diff; all_keys is the key set in the order the loop visits it
compute_quarter_diff(filing_prev, filing_now, cfg, all_keys) ==
    LET holdings_prev == get_holdings_for_filing(filing_prev.id)
        holdings_now == get_holdings_for_filing(filing_now.id)
        total_prev == TotalValue(holdings_prev)
        total_now == TotalValue(holdings_now)
        diffs == List([i \in 1..Len(all_keys) |->
                          PositionDiff(all_keys[i], holdings_prev, holdings_now,
                                       total_prev, total_now, cfg)])
        new_positions == Categorize(diffs, "NEW")
        increased == Categorize(diffs, "INCREASE")
        adds == Adds(diffs)
        cuts == Cuts(diffs)
        weights_now == WeightsNow(holdings_now, total_now)
    IN  [fund_id |-> fund_id,
         fund_name |-> fund_name,
         period_from |-> filing_prev.period_of_report,
         period_to |-> filing_now.period_of_report,
         total_portfolio_prev |-> total_prev,
         total_portfolio_now |-> total_now,
         new_positions |-> new_positions,
         sold_out |-> Categorize(diffs, "EXIT"),
         increased |-> increased,
         decreased |-> Categorize(diffs, "DECREASE"),
         unchanged |-> Categorize(diffs, "UNCHANGED"),
         top_adds_by_value |-> TopByValue(adds, TRUE),
         top_cuts_by_value |-> TopByValue(cuts, FALSE),
         top_adds_by_growth_rate |-> TopByGrowthRate(adds, TRUE, TRUE),
         top_cuts_by_growth_rate |-> TopByGrowthRate(cuts, FALSE, FALSE),
         top_adds_by_portfolio_impact |-> TopByPortfolioImpact(adds, TRUE),
         top_cuts_by_portfolio_impact |-> TopByPortfolioImpact(cuts, FALSE),
         new_starters |-> NewStarters(new_positions),
         increased_starters |-> IncreasedStarters(increased),
         concentration_top5 |-> Concentration(weights_now, ConcTop5),
         concentration_top10 |-> Concentration(weights_now, ConcTop10),
         herfindahl_index |-> Herfindahl(weights_now),
         position_count_prev |-> Len(holdings_prev),
         position_count_now |-> Len(holdings_now),
         gross_adds_value |-> ISum(List([i \in 1..Len(adds) |-> adds[i].delta_value_usd])),
         gross_cuts_value |-> ISum(List([i \in 1..Len(cuts) |-> Abs(cuts[i].delta_value_usd)]))]

\* The five partition lists of a QuarterDiff, concatenated
AllPositions(qd) ==
    qd.new_positions \o qd.sold_out \o qd.increased \o qd.decreased \o qd.unchanged

\* TRUE iff one of the divisions of compute_quarter_diff divided by zero, in
\* which case the call raises ZeroDivisionError instead of returning
Raises(qd) ==
    LET ps == AllPositions(qd)
        failed(o) == o # None /\ Val(o) = ZeroDivisionError
    IN  \/ \E i \in 1..Len(ps) :
               \/ failed(ps[i].prev_weight)
               \/ failed(ps[i].now_weight)
               \/ failed(ps[i].growth_rate)
               \/ failed(ps[i].portfolio_impact)
        \/ qd.concentration_top10 = ZeroDivisionError
        \/ qd.herfindahl_index = ZeroDivisionError

(***************************************************************************)
(* Set iteration order                                                     *)
(***************************************************************************)
RECURSIVE SetToSeq(_)
\* the elements of a finite set in one fixed order
SetToSeq(S) ==
    IF S = {} THEN <<>>
    ELSE LET x == CHOOSE y \in S : TRUE IN <<x>> \o SetToSeq(S \ {x})

Reverse(s) == List([i \in 1..Len(s) |-> s[Len(s) + 1 - i]])

Rotate(s, r) == List([i \in 1..Len(s) |-> s[((i - 1 + r) % Len(s)) + 1]])

\* The orders in which `for key in all_keys` may visit a set of str keys. The
\* order follows the hash of the keys, which is salted per process. Modelled
\* as the rotations of one fixed order and of its reverse: every permutation
\* of a set of up to 3 keys, 2n of the n! permutations of a larger one.
IterationOrders(S) ==
    LET s == SetToSeq(S)
    IN  IF S = {} THEN {<<>>}
        ELSE {Rotate(s, r) : r \in 0..(Len(s) - 1)}
                 \cup {Rotate(Reverse(s), r) : r \in 0..(Len(s) - 1)}

(***************************************************************************)
(* Keyword clustering (analysis/clustering.py)                             *)
(***************************************************************************)
\* The cluster table, in the order the dict literal lists it
CLUSTERS ==
    <<
     [cluster |-> "AI/Semiconductors",
      keywords |-> <<
        "NVIDIA", "AMD", "ADVANCED MICRO", "INTEL", "ASML", "TSMC",
        "TAIWAN SEMI", "SEMICONDUCTOR", "BROADCOM", "QUALCOMM", "MARVELL",
        "MICRON", "APPLIED MATERIAL", "LAM RESEARCH", "KLA", "SYNOPSYS",
        "CADENCE", "ARM HOLDINGS", "LATTICE">>],
     [cluster |-> "Cloud/SaaS",
      keywords |-> <<
        "SALESFORCE", "SERVICENOW", "WORKDAY", "SNOWFLAKE", "DATADOG",
        "MONGODB", "CLOUDFLARE", "ATLASSIAN", "HUBSPOT", "ZSCALER",
        "CROWDSTRIKE", "OKTA", "SPLUNK", "TWILIO", "DOCUSIGN", "ZOOM",
        "DROPBOX", "BOX INC">>],
     [cluster |-> "Fintech/Payments",
      keywords |-> <<
        "VISA", "MASTERCARD", "PAYPAL", "SQUARE", "BLOCK INC", "STRIPE",
        "ADYEN", "AFFIRM", "SOFI", "ROBINHOOD", "COINBASE", "MARQETA",
        "TOAST", "BILL.COM", "BILL HOLDINGS">>],
     [cluster |-> "E-commerce/Retail",
      keywords |-> <<
        "AMAZON", "SHOPIFY", "MERCADOLIBRE", "ETSY", "EBAY", "WAYFAIR",
        "CHEWY", "COUPANG", "PINDUODUO", "JD.COM", "ALIBABA", "WALMART",
        "TARGET", "COSTCO", "HOME DEPOT", "LOWE">>],
     [cluster |-> "Social/Advertising",
      keywords |-> <<
        "META", "FACEBOOK", "GOOGLE", "ALPHABET", "SNAP", "PINTEREST",
        "TWITTER", "LINKEDIN", "REDDIT", "TRADE DESK", "PUBMATIC",
        "DIGITAL TURBINE">>],
     [cluster |-> "Streaming/Media",
      keywords |-> <<
        "NETFLIX", "SPOTIFY", "DISNEY", "WARNER", "PARAMOUNT", "ROKU",
        "ROBLOX", "UNITY", "TAKE-TWO", "ELECTRONIC ARTS", "ACTIVISION",
        "LIVE NATION", "IMAX">>],
     [cluster |-> "Healthcare/Biotech",
      keywords |-> <<
        "UNITEDHEALTH", "CVS", "HUMANA", "CIGNA", "ANTHEM", "ELEVANCE",
        "PFIZER", "LILLY", "ELI LILLY", "MERCK", "JOHNSON & JOHNSON",
        "ABBVIE", "AMGEN", "GILEAD", "REGENERON", "MODERNA", "BIONTECH",
        "VERTEX", "ILLUMINA", "DEXCOM", "INTUITIVE SURGICAL",
        "THERMO FISHER", "DANAHER", "ABBOTT">>],
     [cluster |-> "Energy",
      keywords |-> <<
        "EXXON", "CHEVRON", "MARATHON", "OCCIDENTAL", "CONOCOPHILLIPS",
        "SCHLUMBERGER", "HALLIBURTON", "PIONEER", "DEVON", "EOG",
        "DIAMONDBACK", "COTERRA", "HESS", "VALERO", "PHILLIPS 66">>],
     [cluster |-> "Clean Energy",
      keywords |-> <<
        "TESLA", "RIVIAN", "LUCID", "ENPHASE", "SOLAREDGE", "FIRST SOLAR",
        "SUNRUN", "PLUG POWER", "BLOOM ENERGY", "CHARGEPOINT", "EVGO",
        "NEXTERA">>],
     [cluster |-> "Financials/Banks",
      keywords |-> <<
        "JPMORGAN", "JP MORGAN", "BANK OF AMERICA", "WELLS FARGO",
        "CITIGROUP", "GOLDMAN", "MORGAN STANLEY", "CHARLES SCHWAB",
        "BLACKROCK", "BLACKSTONE", "KKR", "APOLLO", "CARLYLE",
        "STATE STREET", "NORTHERN TRUST", "BANK OF NEW YORK", "US BANCORP",
        "PNC", "TRUIST", "CAPITAL ONE", "AMERICAN EXPRESS", "DISCOVER",
        "SYNCHRONY">>],
     [cluster |-> "Industrials",
      keywords |-> <<
        "CATERPILLAR", "DEERE", "JOHN DEERE", "BOEING", "LOCKHEED",
        "RAYTHEON", "RTX", "NORTHROP", "GENERAL DYNAMICS", "L3HARRIS",
        "HONEYWELL", "3M", "GENERAL ELECTRIC", "UNION PACIFIC", "CSX",
        "NORFOLK", "FEDEX", "UPS", "UNITED PARCEL">>],
     [cluster |-> "Consumer",
      keywords |-> <<
        "COCA-COLA", "PEPSI", "PROCTER", "P&G", "UNILEVER", "COLGATE",
        "KIMBERLY", "CLOROX", "ESTEE LAUDER", "NIKE", "LULULEMON",
        "STARBUCKS", "MCDONALD", "CHIPOTLE", "YUM", "DOMINO">>],
     [cluster |-> "Telecom",
      keywords |-> <<
        "AT&T", "VERIZON", "T-MOBILE", "COMCAST", "CHARTER", "DISH",
        "LUMEN", "VONAGE">>],
     [cluster |-> "Real Estate",
      keywords |-> <<
        "PROLOGIS", "AMERICAN TOWER", "CROWN CASTLE", "EQUINIX",
        "DIGITAL REALTY", "PUBLIC STORAGE", "REALTY INCOME",
        "SIMON PROPERTY", "WELLTOWER", "VENTAS", "AVALONBAY",
        "EQUITY RESIDENTIAL">>]
    >>

LowerCase == "abcdefghijklmnopqrstuvwxyz"

UpperCase == "ABCDEFGHIJKLMNOPQRSTUVWXYZ"

\* str.upper() of one ASCII character
UpperChar(c) ==
    IF \E i \in 1..Len(LowerCase) : SubSeq(LowerCase, i, i) = c
    THEN LET i == CHOOSE j \in 1..Len(LowerCase) : SubSeq(LowerCase, j, j) = c
         IN  SubSeq(UpperCase, i, i)
    ELSE c

RECURSIVE upper(_)
\* str.upper() of an ASCII string
upper(s) ==
    IF Len(s) = 0 THEN ""
    ELSE UpperChar(SubSeq(s, 1, 1)) \o upper(SubSeq(s, 2, Len(s)))

\* Python `keyword in name` for two strings
Contains(keyword, name) ==
    \E i \in 0..(Len(name) - Len(keyword)) : SubSeq(name, i + 1, i + Len(keyword)) = keyword

RECURSIVE ScanKeywords(_, _, _)
\* `for keyword in keywords: if keyword in name_upper: return cluster_name`,
\* from the k-th keyword on: TRUE when the loop returns
ScanKeywords(keywords, name_upper, k) ==
    IF k > Len(keywords) THEN FALSE
    ELSE IF Contains(keywords[k], name_upper) THEN TRUE
    ELSE ScanKeywords(keywords, name_upper, k + 1)

RECURSIVE ScanClusters_LastWins(_, _, _)
ScanClusters_LastWins(name_upper, c, found) ==
    IF c > Len(CLUSTERS) THEN found
    ELSE ScanClusters_LastWins(name_upper, c + 1,
             IF ScanKeywords(CLUSTERS[c].keywords, name_upper, 1)
             THEN CLUSTERS[c].cluster ELSE found)

RECURSIVE ScanClusters(_, _, _)
\* `for cluster_name, keywords in CLUSTERS.items()`, from the c-th cluster on,
\* and the final `return "Other"`; the loop returns at the first match, so
\* the value carried along is never replaced
ScanClusters(name_upper, c, found) ==
    IF c > Len(CLUSTERS) THEN found
    ELSE IF ScanKeywords(CLUSTERS[c].keywords, name_upper, 1) THEN CLUSTERS[c].cluster
    ELSE ScanClusters(name_upper, c + 1, found)

\* The issuer names of the filings of this model
Issuers ==
    {"A", "B", "C", "NVIDIA CORP", "AMD INC", "INTEL CORP", "BROADCOM INC",
     "QUALCOMM INC", "MICRON TECHNOLOGY INC", "SALESFORCE INC",
     "SNOWFLAKE INC", "DATADOG INC", "APPLE INC", "MICROSOFT CORP",
     "BERKSHIRE HATHAWAY INC", "Nvidia Corp", "WARNER BROS DISCOVERY INC",
     "Goldman Sachs Semiconductor ETF", "AMDOCS LTD"}

\* The scan of assign_cluster over the issuer names of the model, tabulated
\* once: assign_cluster is a pure function of the name
ClusterOf == [issuer_name \in Issuers |-> ScanClusters(upper(issuer_name), 1, "Other")]

\* assign_cluster: the first cluster of the table one of whose keywords occurs
\* in the upper-cased issuer name, "Other" when there is none
assign_cluster(issuer_name) ==
    IF issuer_name \in Issuers THEN ClusterOf[issuer_name]
    ELSE LET name_upper == upper(issuer_name) IN ScanClusters(name_upper, 1, "Other")

\* cluster_holdings over (issuer_name, value_usd, weight) tuples: the dict as
\* the sequence of its items, a cluster entering at its first holding, each
\* list sorted by value descending
cluster_holdings(hs) ==
    LET cl == List([i \in 1..Len(hs) |-> assign_cluster(hs[i][1])])
        firsts == SelectIdx({i \in 1..Len(hs) : \A j \in 1..(i - 1) : cl[j] # cl[i]}, Len(hs))
        members(c) == Filter(hs, {i \in 1..Len(hs) : cl[i] = c})
        by_value(ms) == Sorted(ms, List([i \in 1..Len(ms) |-> Frac(ms[i][2], 1)]), TRUE)
    IN  List([k \in 1..Len(firsts) |->
                 [cluster |-> cl[firsts[k]], holdings |-> by_value(members(cl[firsts[k]]))]])

\* The summaries of summarize_clusters before its final sort
ClusterSummaries(hs) ==
    LET clusters == cluster_holdings(hs)
    IN  List([k \in 1..Len(clusters) |->
            LET cluster_holdings_list == clusters[k].holdings
                n == Len(cluster_holdings_list)
            IN  <<clusters[k].cluster,
                  ISum(List([i \in 1..n |-> cluster_holdings_list[i][2]])),
                  FSum(List([i \in 1..n |-> cluster_holdings_list[i][3]])),
                  n>>])

summarize_clusters_Unsorted(hs) == ClusterSummaries(hs)

\* summarize_clusters: (cluster, total_value, total_weight, count) per cluster
\* of cluster_holdings, sorted by total value descending
summarize_clusters(hs) ==
    LET summaries == ClusterSummaries(hs)
    IN  Sorted(summaries, List([k \in 1..Len(summaries) |-> Frac(summaries[k][2], 1)]), TRUE)

(***************************************************************************)
(* Thesis signals (analysis/signals.py)                                    *)
(***************************************************************************)
\* The fields of Signal but the description, a text rendering of the others.
\* details holds the entries of the dict of the signal's type.
Signal(signal_type, holdings_, quarters, strength, details) ==
    [signal_type |-> signal_type, holdings |-> holdings_, quarters |-> quarters,
     strength |-> strength, details |-> details]

RECURSIVE Flatten(_)
\* The concatenation of a list of lists
Flatten(ss) == IF ss = <<>> THEN <<>> ELSE Head(ss) \o Flatten(Tail(ss))

\* Python s[-n:] for n > 0
LastN(s, n) == IF Len(s) <= n THEN s ELSE SubSeq(s, Len(s) - n + 1, Len(s))

\* The positions of a diff in the order detect_signals visits them
all_positions(diff) ==
    diff.new_positions \o diff.increased \o diff.decreased \o diff.unchanged \o diff.sold_out

\* position_history: the dict as the sequence of its items in insertion order;
\* the key is pos.cusip, an entry is (period, value, weight, change_type)
position_history(diffs) ==
    LET old_to_new == Reverse(diffs)
        visits == Flatten(List([d \in 1..Len(old_to_new) |->
                      LET ps == all_positions(old_to_new[d])
                      IN  List([i \in 1..Len(ps) |->
                              [key |-> ps[i].cusip,
                               entry |-> <<old_to_new[d].period_to, ps[i].now_value_usd,
                                           ps[i].now_weight, ps[i].change_type>>]])]))
        n == Len(visits)
        firsts == SelectIdx({i \in 1..n : \A j \in 1..(i - 1) : visits[j].key # visits[i].key}, n)
        entries(cusip) ==
            LET own == Filter(visits, {i \in 1..n : visits[i].key = cusip})
            IN  List([i \in 1..Len(own) |-> own[i].entry])
    IN  List([k \in 1..Len(firsts) |->
                 [cusip |-> visits[firsts[k]].key, history |-> entries(visits[firsts[k]].key)]])

\* cusip_to_name.get(cusip, cusip): the issuer name written last, diffs being
\* visited newest first
cusip_to_name(diffs, cusip) ==
    LET named == Flatten(List([d \in 1..Len(diffs) |->
                     diffs[d].new_positions \o diffs[d].increased \o diffs[d].decreased]))
        own == {i \in 1..Len(named) : named[i].cusip = cusip}
    IN  IF own = {} THEN cusip
        ELSE named[CHOOSE i \in own : \A j \in own : j <= i].issuer_name

Max(a, b) == IF a > b THEN a ELSE b

Min(a, b) == IF a < b THEN a ELSE b

RECURSIVE AccumulatorScan(_, _)
\* The loop of the consistent-accumulator detector over the first n entries
AccumulatorScan(history, n) ==
    IF n = 0 THEN [consecutive_increases |-> 0, max_consecutive |-> 0, increase_quarters |-> <<>>]
    ELSE LET s == AccumulatorScan(history, n - 1)
         IN  IF history[n][4] = "INCREASE"
             THEN [s EXCEPT !.consecutive_increases = @ + 1,
                            !.increase_quarters = Append(@, history[n][1])]
             ELSE [consecutive_increases |-> 0,
                   max_consecutive |-> Max(s.max_consecutive, s.consecutive_increases),
                   increase_quarters |-> <<>>]

\* The consistent-accumulator detector on the run the history ends with
\* instead of the longest one
ConsistentAccumulator_LastRun(diffs, cusip, history) ==
    LET s == AccumulatorScan(history, Len(history))
        max_consecutive == s.consecutive_increases
    IN  IF max_consecutive >= 3
        THEN <<Signal("consistent_accumulator", <<cusip_to_name(diffs, cusip)>>,
                      LastN(s.increase_quarters, max_consecutive),
                      IF max_consecutive >= 4 THEN "strong" ELSE "moderate",
                      [consecutive_increases |-> max_consecutive])>>
        ELSE <<>>

\* 1. Consistent Accumulator, for one item of position_history
ConsistentAccumulator(diffs, cusip, history) ==
    LET s == AccumulatorScan(history, Len(history))
        max_consecutive == Max(s.max_consecutive, s.consecutive_increases)
    IN  IF max_consecutive >= 3
        THEN <<Signal("consistent_accumulator", <<cusip_to_name(diffs, cusip)>>,
                      LastN(s.increase_quarters, max_consecutive),
                      IF max_consecutive >= 4 THEN "strong" ELSE "moderate",
                      [consecutive_increases |-> max_consecutive])>>
        ELSE <<>>

RECURSIVE BuildScan_NoReset(_, _, _, _, _, _)
\* The build-then-trim loop without the reset of the build phase
BuildScan_NoReset(diffs, cusip, history, i, build_quarters, in_build_phase) ==
    IF i > Len(history) THEN <<>>
    ELSE IF history[i][4] = "INCREASE"
    THEN BuildScan_NoReset(diffs, cusip, history, i + 1,
                           Append(build_quarters, history[i][1]), TRUE)
    ELSE IF history[i][4] = "DECREASE" /\ in_build_phase /\ Len(build_quarters) >= 2
    THEN <<Signal("build_then_trim", <<cusip_to_name(diffs, cusip)>>,
                  Append(build_quarters, history[i][1]), "moderate",
                  [build_quarters |-> Len(build_quarters)])>>
    ELSE BuildScan_NoReset(diffs, cusip, history, i + 1, build_quarters, in_build_phase)

RECURSIVE BuildScan(_, _, _, _, _, _)
\* The loop of the build-then-trim detector from entry i on, which breaks at
\* the first signal
BuildScan(diffs, cusip, history, i, build_quarters, in_build_phase) ==
    IF i > Len(history) THEN <<>>
    ELSE IF history[i][4] = "INCREASE"
    THEN BuildScan(diffs, cusip, history, i + 1, Append(build_quarters, history[i][1]), TRUE)
    ELSE IF history[i][4] = "DECREASE" /\ in_build_phase /\ Len(build_quarters) >= 2
    THEN <<Signal("build_then_trim", <<cusip_to_name(diffs, cusip)>>,
                  Append(build_quarters, history[i][1]), "moderate",
                  [build_quarters |-> Len(build_quarters)])>>
    ELSE BuildScan(diffs, cusip, history, i + 1, <<>>, FALSE)

\* 2. Build then Trim, for one item of position_history
BuildThenTrim(diffs, cusip, history) ==
    IF Len(history) < 3 THEN <<>>
    ELSE BuildScan(diffs, cusip, history, 1, <<>>, FALSE)

\* The one-quarter-probe detector looking three entries ahead
OneQuarterProbe_ThreeAhead(diffs, cusip, history) ==
    LET n == Len(history)
        exits(i) == {j \in (i + 1)..Min(i + 3, n) : history[j][4] = "EXIT"}
        probe(i) ==
            IF history[i][4] = "NEW" /\ exits(i) # {}
            THEN LET j == CHOOSE x \in exits(i) : \A y \in exits(i) : x <= y
                     quarters_held == j - i + 1
                 IN  <<Signal("one_quarter_probe", <<cusip_to_name(diffs, cusip)>>,
                              <<history[i][1], history[j][1]>>, "weak",
                              [quarters_held |-> quarters_held])>>
            ELSE <<>>
    IN  Flatten(List([i \in 1..n |-> probe(i)]))

\* 3. One-Quarter Probe, for one item of position_history: per NEW entry i the
\* first EXIT among the next two entries
OneQuarterProbe(diffs, cusip, history) ==
    LET n == Len(history)
        exits(i) == {j \in (i + 1)..Min(i + 2, n) : history[j][4] = "EXIT"}
        probe(i) ==
            IF history[i][4] = "NEW" /\ exits(i) # {}
            THEN LET j == CHOOSE x \in exits(i) : \A y \in exits(i) : x <= y
                     quarters_held == j - i + 1
                 IN  <<Signal("one_quarter_probe", <<cusip_to_name(diffs, cusip)>>,
                              <<history[i][1], history[j][1]>>, "weak",
                              [quarters_held |-> quarters_held])>>
            ELSE <<>>
    IN  Flatten(List([i \in 1..n |-> probe(i)]))

\* The body of the loop over position_history of the detector that emits
\* signals of this type
DetectorOf(signal_type, diffs, cusip, history) ==
    CASE signal_type = "consistent_accumulator" -> ConsistentAccumulator(diffs, cusip, history)
      [] signal_type = "build_then_trim" -> BuildThenTrim(diffs, cusip, history)
      [] signal_type = "one_quarter_probe" -> OneQuarterProbe(diffs, cusip, history)

\* `for cusip, history in position_history.items()` of one of the detectors
\* 1. to 3.: the signals it appends, in the order of the dict
PerHistory(signal_type, diffs) ==
    LET ph == position_history(diffs)
    IN  Flatten(List([k \in 1..Len(ph) |->
                         DetectorOf(signal_type, diffs, ph[k].cusip, ph[k].history)]))

\* Python abs(a - b) of two floats
FAbsDiff(a, b) ==
    LET d == FAdd(a, Frac(-b.num, b.den))
    IN  IF d.num < 0 THEN Frac(-d.num, d.den) ELSE d

\* The concentration shift between the newest diff and the one before it
ConcentrationShift_Adjacent(diffs) ==
    IF Len(diffs) >= 2
    THEN LET newest == diffs[1]
             oldest == diffs[2]
             conc_change == FAbsDiff(newest.concentration_top5, oldest.concentration_top5)
             direction == IF FLess(oldest.concentration_top5, newest.concentration_top5)
                          THEN "increased" ELSE "decreased"
         IN  IF FLeq(Frac(5, 100), conc_change)
             THEN <<Signal("concentration_shift", <<>>,
                           <<oldest.period_to, newest.period_to>>,
                           IF FLess(conc_change, Frac(10, 100)) THEN "moderate" ELSE "strong",
                           [concentration_change |-> conc_change, direction |-> direction,
                            from |-> oldest.concentration_top5,
                            to |-> newest.concentration_top5])>>
             ELSE <<>>
    ELSE <<>>

\* 4. Concentration Shift between the oldest and the newest diff
ConcentrationShift(diffs) ==
    IF Len(diffs) >= 2
    THEN LET newest == diffs[1]
             oldest == diffs[Len(diffs)]
             conc_change == FAbsDiff(newest.concentration_top5, oldest.concentration_top5)
             direction == IF FLess(oldest.concentration_top5, newest.concentration_top5)
                          THEN "increased" ELSE "decreased"
         IN  IF FLeq(Frac(5, 100), conc_change)
             THEN <<Signal("concentration_shift", <<>>,
                           <<oldest.period_to, newest.period_to>>,
                           IF FLess(conc_change, Frac(10, 100)) THEN "moderate" ELSE "strong",
                           [concentration_change |-> conc_change, direction |-> direction,
                            from |-> oldest.concentration_top5,
                            to |-> newest.concentration_top5])>>
             ELSE <<>>
    ELSE <<>>

\* The body of the loop of 5. over the positions of one diff: cluster_starters
\* as the sequence of its items in insertion order, one signal per cluster of
\* 3 or more starters
ThemeSignals(positions, period_to) ==
    LET ns == positions
        cl == List([i \in 1..Len(ns) |-> assign_cluster(ns[i].issuer_name)])
        firsts == SelectIdx({i \in 1..Len(ns) :
                      cl[i] # "Other" /\ \A j \in 1..(i - 1) : cl[j] # cl[i]}, Len(ns))
        starters(c) ==
            LET own == Filter(ns, {i \in 1..Len(ns) : cl[i] = c})
            IN  List([i \in 1..Len(own) |-> own[i].issuer_name])
        theme(c) ==
            IF Len(starters(c)) >= 3
            THEN <<Signal("theme_emergence", starters(c), <<period_to>>,
                          IF Len(starters(c)) < 5 THEN "moderate" ELSE "strong",
                          [cluster |-> c, count |-> Len(starters(c))])>>
            ELSE <<>>
    IN  Flatten(List([k \in 1..Len(firsts) |-> theme(cl[firsts[k]])]))

ThemeEmergence_NewPositions(diff) == ThemeSignals(diff.new_positions, diff.period_to)

\* 5. Theme Emergence in one diff: the new starters of the diff by cluster
ThemeEmergence(diff) == ThemeSignals(diff.new_starters, diff.period_to)

\* strength_order.get(s.strength, 3)
strength_order(strength) ==
    IF strength = "strong" THEN 0
    ELSE IF strength = "moderate" THEN 1
    ELSE IF strength = "weak" THEN 2
    ELSE 3

\* The signals in the order the five detectors append them
EmittedSignals(diffs) ==
    PerHistory("consistent_accumulator", diffs)
        \o PerHistory("build_then_trim", diffs)
        \o PerHistory("one_quarter_probe", diffs)
        \o ConcentrationShift(diffs)
        \o Flatten(List([d \in 1..Len(diffs) |-> ThemeEmergence(diffs[d])]))

detect_signals_Unsorted(diffs) == IF diffs = <<>> THEN <<>> ELSE EmittedSignals(diffs)

\* detect_signals; diffs is ordered from most recent to oldest
detect_signals(diffs) ==
    IF diffs = <<>> THEN <<>>
    ELSE LET signals == EmittedSignals(diffs)
         IN  Sorted(signals,
                    List([i \in 1..Len(signals) |-> Frac(strength_order(signals[i].strength), 1)]),
                    FALSE)

\* float("inf")
Infinity == Frac(1, 0)

\* The 20_000_000 of `now_value > 20_000_000`, in the unit of value_usd
ScaleValue == 20000000 \div 1000000

\* The body of detect_starter_to_scale after its guard
ScaledPositions(diffs) ==
    LET old_to_new == Reverse(diffs)
        visits == Flatten(List([d \in 1..Len(old_to_new) |->
                      LET ns == old_to_new[d].new_starters
                      IN  List([i \in 1..Len(ns) |->
                              [cusip |-> ns[i].cusip,
                               name |-> ns[i].issuer_name,
                               start_period |-> old_to_new[d].period_to,
                               start_value |-> OrZero(ns[i].now_value_usd),
                               start_weight |-> FloatOrZero(ns[i].now_weight)]])]))
        \* starter_positions: the first visit of a cusip stays
        starter_positions ==
            Filter(visits, {i \in 1..Len(visits) :
                               \A j \in 1..(i - 1) : visits[j].cusip # visits[i].cusip})
        latest_diff == diffs[1]
        current == latest_diff.new_positions \o latest_diff.increased
                       \o latest_diff.decreased \o latest_diff.unchanged
        \* all_current: the last position of a cusip stays
        in_current(cusip) == \E i \in 1..Len(current) : current[i].cusip = cusip
        all_current(cusip) ==
            LET own == {i \in 1..Len(current) : current[i].cusip = cusip}
            IN  current[CHOOSE i \in own : \A j \in own : j <= i]
        scaled(sp) ==
            LET now_weight == FloatOrZero(all_current(sp.cusip).now_weight)
                now_value == OrZero(all_current(sp.cusip).now_value_usd)
            IN  IF FLess(Frac(5, 1000), now_weight) \/ now_value > ScaleValue
                THEN <<[issuer_name |-> sp.name,
                        cusip |-> sp.cusip,
                        start_period |-> sp.start_period,
                        start_value |-> sp.start_value,
                        start_weight |-> sp.start_weight,
                        current_value |-> now_value,
                        current_weight |-> now_weight,
                        growth_rate |-> IF sp.start_value > 0
                                        THEN Div(now_value - sp.start_value, sp.start_value)
                                        ELSE Infinity]>>
                ELSE <<>>
        scaled_positions ==
            Flatten(List([k \in 1..Len(starter_positions) |->
                IF in_current(starter_positions[k].cusip) THEN scaled(starter_positions[k])
                ELSE <<>>]))
    IN  Sorted(scaled_positions,
               List([i \in 1..Len(scaled_positions) |-> scaled_positions[i].growth_rate]),
               TRUE)

\* detect_starter_to_scale; diffs is ordered from most recent to oldest
detect_starter_to_scale(diffs) == IF Len(diffs) < 2 THEN <<>> ELSE ScaledPositions(diffs)

(***************************************************************************)
(* Inputs                                                                  *)
(***************************************************************************)
\* The most holdings of one parsed filing
MaxHoldings == 2

\* Securities as a 13F reports them; the put and the common stock of one
\* issuer share a cusip.
Securities ==
    {[issuer_name |-> "APPLE INC", title_of_class |-> "COM", cusip |-> "037833100",
      shares_type |-> "SH", put_call |-> None],
     [issuer_name |-> "APPLE INC", title_of_class |-> "COM", cusip |-> "037833100",
      shares_type |-> "SH", put_call |-> Some("Put")],
     [issuer_name |-> "NVIDIA CORP", title_of_class |-> "COM", cusip |-> "67066G104",
      shares_type |-> "SH", put_call |-> None]}

\* Reported values
Values == {0, 1, 2}

\* A holding of security s worth v
Holding(s, v) ==
    HoldingRecord(s.issuer_name, s.title_of_class, s.cusip, v, 10 * v, s.shares_type, s.put_call)

\* The holdings a filing may report; a row without a value, which the parser
\* reads as 0, is taken for the shares only.
Universe ==
    {Holding(s, v) : s \in {t \in Securities : t.put_call = None}, v \in Values}
        \cup {Holding(s, v) : s \in Securities, v \in Values \ {0}}

\* The parsed filings of up to n holdings drawn from U. The order of the rows
\* of a filing survives the ORDER BY of the query only among rows of equal
\* value, so the filings are listed by non-increasing value.
Batches(U, n) ==
    {b \in UNION {[1..k -> U] : k \in 0..n} :
        \A i \in 1..(Len(b) - 1) : b[i].value_usd >= b[i + 1].value_usd}

\* Starter thresholds scaled to the values above
Configs == {Config(Frac(1, 2), Frac(2, 3), 2)}

(***************************************************************************)
(* The state machine                                                       *)
(***************************************************************************)
\* An empty database and a configuration out of configs
InitWith(configs) ==
    /\ filings = {}
    /\ holdings = [f \in FilingIds |-> <<>>]
    /\ config \in configs
    /\ result = None
    /\ exception = ""
    /\ report = None

Init == InitWith(Configs)

\* `13f sync` for one filing that is not ingested yet (filing_exists is
\* false): upsert_filing, then insert_holdings of the parsed holdings
IngestFiling(feed) ==
    \E f \in FilingIds \ filings, batch \in feed :
        /\ filings' = filings \cup {f}
        /\ holdings' = [holdings EXCEPT ![f] = insert_holdings(holdings[f], batch)]
        /\ UNCHANGED <<config, result, exception, report>>

\* compute_all_diffs pairs each filing with the next older one of the fund:
\* filing_now = filings[i], filing_prev = filings[i + 1], filings by period descending
Adjacent(fp, fn) ==
    /\ fp < fn
    /\ ~ \E f \in filings : fp < f /\ f < fn

\* One call of compute_quarter_diff by compute_all_diffs, which returns or raises
ComputeQuarterDiff ==
    \E fp \in filings, fn \in filings :
        /\ Adjacent(fp, fn)
        /\ \E all_keys \in IterationOrders(AllKeys(get_holdings_for_filing(fp),
                                                get_holdings_for_filing(fn))) :
               LET qd == compute_quarter_diff(FilingRecord(fp), FilingRecord(fn), config, all_keys)
               IN  /\ result' = IF Raises(qd) THEN None ELSE Some(qd)
                   /\ exception' = IF Raises(qd) THEN "ZeroDivisionError" ELSE ""
                   /\ UNCHANGED <<filings, holdings, config, report>>

Next ==
    \/ IngestFiling(Batches(Universe, MaxHoldings))
    \/ ComputeQuarterDiff

Spec == Init /\ [][Next]_vars

\* The report of a fund calls compute_quarter_diff once for a pair of filings
ComputeOnce ==
    /\ result = None
    /\ ComputeQuarterDiff

NextOnce ==
    \/ IngestFiling(Batches(Universe, MaxHoldings))
    \/ ComputeOnce

\* The behaviours of Spec in which the diff is computed once
SpecOnce == Init /\ [][NextOnce]_vars

(***************************************************************************)
(* The worked scenario of the specification                                *)
(***************************************************************************)
SecurityA == [issuer_name |-> "A", title_of_class |-> "COM", cusip |-> "AAAAAAAAA",
              shares_type |-> "SH", put_call |-> None]

SecurityB == [issuer_name |-> "B", title_of_class |-> "COM", cusip |-> "BBBBBBBBB",
              shares_type |-> "SH", put_call |-> None]

SecurityC == [issuer_name |-> "C", title_of_class |-> "COM", cusip |-> "CCCCCCCCC",
              shares_type |-> "SH", put_call |-> None]

\* The holdings the scenario is made of, and one reported with a value of 0
ScenarioUniverse ==
    {Holding(SecurityA, 100), Holding(SecurityA, 150),
     Holding(SecurityB, 50), Holding(SecurityC, 30), Holding(SecurityB, 0)}

\* Starter thresholds that positions of the scenario meet exactly
ScenarioConfigs ==
    {Config(Frac(1, 6), Frac(2, 3), 100),
     Config(Frac(1, 6), Frac(1, 3), 30)}

InitScenario == InitWith(ScenarioConfigs)

NextScenario ==
    \/ IngestFiling(Batches(ScenarioUniverse, MaxHoldings))
    \/ ComputeQuarterDiff

SpecScenario == InitScenario /\ [][NextScenario]_vars

(***************************************************************************)
(* Large portfolios, for the concentration diagnostics                     *)
(***************************************************************************)
\* The most positions of a large portfolio: one more than concentration_top10 sums
MaxPositions == 11

\* The i-th security of a large portfolio
ConcSecurity(i) ==
    [issuer_name |-> "ISSUER " \o Digits[(i \div 10) + 1] \o Digits[(i % 10) + 1],
     title_of_class |-> "COM",
     cusip |-> "0000000" \o Digits[(i \div 10) + 1] \o Digits[(i % 10) + 1],
     shares_type |-> "SH", put_call |-> None]

\* How the values of a large portfolio are spread over its positions
Patterns == {"equal", "ramp", "zero"}

PatternValue(pattern, i) ==
    IF pattern = "equal" THEN 3
    ELSE IF pattern = "ramp" THEN i - 1
    ELSE 0

\* The parsed filings of n positions, n up to MaxPositions
ConcFeed ==
    {[i \in 1..n |-> Holding(ConcSecurity(i), PatternValue(pattern, i))] :
        n \in 0..MaxPositions, pattern \in Patterns}

NextConc ==
    \/ IngestFiling(ConcFeed)
    \/ ComputeOnce

SpecConc == Init /\ [][NextConc]_vars

(***************************************************************************)
(* The fund report over a run of quarterly filings                         *)
(***************************************************************************)
RECURSIVE get_filings_for_fund(_)
\* Database.get_filings_for_fund: the filings of the set fs ordered by period
\* descending, a larger id being a later period
get_filings_for_fund(fs) ==
    IF fs = {} THEN <<>>
    ELSE LET latest == CHOOSE f \in fs : \A g \in fs : g <= f
         IN  <<FilingRecord(latest)>> \o get_filings_for_fund(fs \ {latest})

\* The hash seeds of one process, as far as they tell the orders of the key
\* sets of the diffs of the filings fs apart: one of IterationOrders for the
\* largest key set
HashSeeds(fs) ==
    LET sizes == {Cardinality(AllKeys(get_holdings_for_filing(fs[i + 1].id),
                                      get_holdings_for_filing(fs[i].id))) :
                      i \in 1..(Len(fs) - 1)}
        widest == IF sizes \subseteq {0} THEN 1 ELSE CHOOSE n \in sizes : \A m \in sizes : m <= n
    IN  [reverse : BOOLEAN, rotation : 0..(widest - 1)]

\* The order in which a process with this hash seed visits a set of str keys:
\* one of IterationOrders(S), every one of them for some seed
IterationOrder(S, seed) ==
    LET s == SetToSeq(S)
    IN  IF S = {} THEN <<>>
        ELSE Rotate(IF seed.reverse THEN Reverse(s) ELSE s, seed.rotation % Len(s))

\* compute_all_diffs with the diffs in the order of the periods, oldest first
compute_all_diffs_OldestFirst(fs, cfg, seed) ==
    IF Len(fs) < 2 THEN <<>>
    ELSE List([i \in 1..(Len(fs) - 1) |->
                  LET filing_now == fs[Len(fs) - i]
                      filing_prev == fs[Len(fs) - i + 1]
                      all_keys == IterationOrder(AllKeys(get_holdings_for_filing(filing_prev.id),
                                                         get_holdings_for_filing(filing_now.id)),
                                                 seed)
                  IN  compute_quarter_diff(filing_prev, filing_now, cfg, all_keys)])

RECURSIVE compute_all_diffs(_, _, _)
\* compute_all_diffs over the filings fs (period descending) in a process
\* with the given hash seed: the QuarterDiffs of the adjacent filings, most
\* recent first
compute_all_diffs(fs, cfg, seed) ==
    IF Len(fs) < 2 THEN <<>>
    ELSE LET filing_now == fs[1]
             filing_prev == fs[2]
             all_keys == IterationOrder(AllKeys(get_holdings_for_filing(filing_prev.id),
                                                get_holdings_for_filing(filing_now.id)), seed)
         IN  <<compute_quarter_diff(filing_prev, filing_now, cfg, all_keys)>>
                 \o compute_all_diffs(Tail(fs), cfg, seed)

\* The rows of the "Top 10 Holdings" table of the report, holdings[:10]
TopHoldings == 10

\* The first holding of the cluster section of the report, holdings[10:30]
MidFrom == 10

\* The end of the cluster section of the report
MidTo == 30

\* Python s[a:b]
Slice(s, a, b) == SubSeq(s, a + 1, IF Len(s) < b THEN Len(s) ELSE b)

\* The (issuer_name, value_usd, weight) tuples the report summarizes by cluster
MidHoldings(hs) ==
    LET total_value == TotalValue(hs)
        mid == Slice(hs, MidFrom, MidTo)
    IN  List([i \in 1..Len(mid) |->
                 <<mid[i].issuer_name, mid[i].value_usd,
                   IF total_value # 0 THEN Div(mid[i].value_usd, total_value) ELSE Frac(0, 1)>>])

\* The rows of the latest filing of the fund, none before the first filing
LatestRows == IF filings = {} THEN <<>> ELSE holdings[Cardinality(filings)]

\* `13f sync` for the filing of the next quarter of a fund whose n quarters
\* are filed one after the other; feed are the filings that may follow the
\* latest one
SyncQuarter(feed, n) ==
    LET f == Cardinality(filings) + 1
    IN  /\ f <= n
        /\ \E batch \in feed :
               /\ filings' = filings \cup {f}
               /\ holdings' = (f :> insert_holdings(<<>>, batch)) @@ holdings
               /\ UNCHANGED <<config, result, exception, report>>

\* The Cluster column of the "Top 10 Holdings" table of the report
TopClusters(hs) ==
    LET top == Slice(hs, 0, TopHoldings)
    IN  List([i \in 1..Len(top) |-> <<top[i].issuer_name, assign_cluster(top[i].issuer_name)>>])

\* generate_fund_report for the latest period, up to the text it renders: the
\* diffs, the signals, the starter-to-scale view, the cluster of each of the
\* top holdings and the cluster summary of the next ones (clusters is the
\* grouping summarize_clusters computes on its way)
GenerateFundReport ==
    /\ filings # {}
    /\ LET fs == get_filings_for_fund(filings)
           filing == fs[1]
           hs == get_holdings_for_filing(filing.id)
       IN  \E diffs \in {compute_all_diffs(fs, config, seed) : seed \in HashSeeds(fs)} :
               LET raises == \E d \in 1..Len(diffs) : Raises(diffs[d])
               IN  /\ report' = IF raises THEN None
                                ELSE Some([period |-> filing.period_of_report,
                                           diffs |-> diffs,
                                           signals |-> detect_signals(diffs),
                                           starter_to_scale |-> detect_starter_to_scale(diffs),
                                           top_clusters |-> TopClusters(hs),
                                           clusters |->
                                               IF Len(hs) > MidFrom
                                               THEN cluster_holdings(MidHoldings(hs))
                                               ELSE <<>>,
                                           cluster_summary |->
                                               IF Len(hs) > MidFrom
                                               THEN summarize_clusters(MidHoldings(hs))
                                               ELSE <<>>])
                   /\ exception' = IF raises THEN "ZeroDivisionError" ELSE ""
                   /\ UNCHANGED <<filings, holdings, config, result>>

\* The report of a run of filings, generated once
ReportOnce ==
    /\ report = None
    /\ GenerateFundReport

(***************************************************************************)
(* One position followed over the quarters                                 *)
(***************************************************************************)
\* The most quarters of a followed position
MaxQuarters == 7

\* The value at which a position is opened
EntryValue == 2

\* The values security s may have in the filing after one with these rows:
\* opened at EntryValue when it was not held, else kept, raised or cut by one
NextValues(s, rows) ==
    LET held == {i \in 1..Len(rows) : holding_key(rows[i]) = holding_key(s)}
    IN  IF held = {} THEN {EntryValue}
        ELSE LET v == rows[CHOOSE i \in held : TRUE].value_usd
             IN  {v, v + 1} \cup (IF v > 1 THEN {v - 1} ELSE {})

\* The securities security s may be reported with after a filing with these
\* rows, in no filing (<<>>) or once
NextRows(s, rows) == {<<>>} \cup {<<Holding(s, v)>> : v \in NextValues(s, rows)}

TrackedSecurity ==
    [issuer_name |-> "NVIDIA CORP", title_of_class |-> "COM", cusip |-> "67066G104",
     shares_type |-> "SH", put_call |-> None]

\* The filings that may follow a filing with these rows
HistoryFeed(rows) == NextRows(TrackedSecurity, rows)

NextHistory ==
    \/ report = None /\ SyncQuarter(HistoryFeed(LatestRows), MaxQuarters)
    \/ ReportOnce

SpecHistory == Init /\ [][NextHistory]_vars

(***************************************************************************)
(* A position reported in several rows, for the concentration shift        *)
(***************************************************************************)
\* The most quarters of a fund whose concentration shifts
MaxShiftQuarters == 4

\* A filing that reports the tracked security in one row per value, as a 13F
\* does for a security held through several managers
Lots(values) == List([i \in 1..Len(values) |-> Holding(TrackedSecurity, values[i])])

\* The filings of a quarter: none or one row (top-5 concentration 0 or 1) or
\* six rows with a top-5 concentration of 39/40, 19/20, 15/16 or 9/10
ShiftFeed(rows) ==
    {Lots(values) : values \in {<<>>, <<5>>, <<8, 8, 8, 8, 7, 1>>, <<4, 4, 4, 4, 3, 1>>,
                                <<3, 3, 3, 3, 3, 1>>, <<2, 2, 2, 2, 1, 1>>}}

NextShift ==
    \/ report = None /\ SyncQuarter(ShiftFeed(LatestRows), MaxShiftQuarters)
    \/ ReportOnce

SpecShift == Init /\ [][NextShift]_vars

(***************************************************************************)
(* A fund that opens small positions in several sectors                    *)
(***************************************************************************)
\* The most quarters of a fund that opens positions by theme
MaxThemeQuarters == 3

\* The issuers the fund buys, in the order it opens them: semiconductors,
\* uncategorized issuers, cloud software, semiconductors again
ThemeIssuers ==
    <<"NVIDIA CORP", "AMD INC", "INTEL CORP", "APPLE INC", "MICROSOFT CORP",
      "BERKSHIRE HATHAWAY INC", "SALESFORCE INC", "SNOWFLAKE INC", "DATADOG INC",
      "BROADCOM INC", "QUALCOMM INC", "MICRON TECHNOLOGY INC">>

ThemeSecurity(i) ==
    [issuer_name |-> ThemeIssuers[i], title_of_class |-> "COM",
     cusip |-> "0000000" \o Digits[(i \div 10) + 1] \o Digits[(i % 10) + 1],
     shares_type |-> "SH", put_call |-> None]

\* The value of a starter position, below the starter_value_threshold of
\* Configs
StarterValue == 1

\* The value of a position opened at full size: not a starter by value, nor
\* by weight next to the 11 others
FullValue == 3

\* The filing that reports the first k issuers, the last one at full size and
\* the others as starters
ThemeFiling(k) ==
    (IF k = Len(ThemeIssuers) THEN <<Holding(ThemeSecurity(k), FullValue)>> ELSE <<>>)
        \o List([i \in 1..Min(k, Len(ThemeIssuers) - 1) |-> Holding(ThemeSecurity(i), StarterValue)])

\* The numbers of issuers a filing of the fund reports
ThemeSizes == {0, 1, 3, 9, 11, 12}

\* The filings of a quarter, whatever the filing before
ThemeFeed(rows) == {ThemeFiling(k) : k \in ThemeSizes}

NextThemes ==
    \/ report = None /\ SyncQuarter(ThemeFeed(LatestRows), MaxThemeQuarters)
    \/ ReportOnce

SpecThemes == Init /\ [][NextThemes]_vars

(***************************************************************************)
(* A core position next to a basket of starters, for the order of signals  *)
(***************************************************************************)
\* The most quarters of the fund with the basket
MaxOrderQuarters == 5

\* The semiconductor issuers of the basket: five starters bought together
BasketIssuers == {2, 3, 10, 11, 12}

Basket == List([i \in 1..Cardinality(BasketIssuers) |->
                   Holding(ThemeSecurity(SetToSeq(BasketIssuers)[i]), StarterValue)])

\* The filings that may follow a filing with these rows: the core position,
\* opened at EntryValue and then raised or cut by one every quarter, alone
\* or followed by the basket
OrderFeed(rows) ==
    LET core == {<<Holding(TrackedSecurity, v)>> :
                    v \in IF rows = <<>> THEN {EntryValue}
                          ELSE NextValues(TrackedSecurity, rows) \ {rows[1].value_usd}}
    IN  core \cup {c \o Basket : c \in core}

NextOrder ==
    \/ report = None /\ SyncQuarter(OrderFeed(LatestRows), MaxOrderQuarters)
    \/ ReportOnce

SpecOrder == Init /\ [][NextOrder]_vars

(***************************************************************************)
(* A starter that grows next to the rest of a portfolio                    *)
(***************************************************************************)
\* The most quarters of the fund with the growing starter
MaxScaleQuarters == 3

\* The rest of the portfolio, reported in one row
RestSecurity ==
    [issuer_name |-> "BERKSHIRE HATHAWAY INC", title_of_class |-> "CL B",
     cusip |-> "084670702", shares_type |-> "SH", put_call |-> None]

\* The values of the tracked position (none when it is not held) and of the
\* rest of the portfolio in a filing: a row without a value next to 199, a
\* weight of 1/199 or of 1/200 with a value below ScaleValue, a weight of
\* 1/200 with a value of ScaleValue or just above, and a large position
ScaleCases ==
    {<<None, 199>>, <<Some(0), 199>>, <<Some(1), 198>>, <<Some(1), 199>>,
     <<Some(ScaleValue), 199 * ScaleValue>>,
     <<Some(ScaleValue + 1), 199 * (ScaleValue + 1)>>,
     <<Some(ScaleValue + 1), 198>>}

\* The filings of a quarter, whatever the filing before, by value descending
ScaleFeed(rows) ==
    {IF c[1] = None THEN <<Holding(RestSecurity, c[2])>>
     ELSE IF Val(c[1]) > c[2]
          THEN <<Holding(TrackedSecurity, Val(c[1])), Holding(RestSecurity, c[2])>>
          ELSE <<Holding(RestSecurity, c[2]), Holding(TrackedSecurity, Val(c[1]))>> :
        c \in ScaleCases}

NextScale ==
    \/ report = None /\ SyncQuarter(ScaleFeed(LatestRows), MaxScaleQuarters)
    \/ ReportOnce

SpecScale == Init /\ [][NextScale]_vars

(***************************************************************************)
(* The clustering functions called on their own                            *)
(***************************************************************************)
\* The most holdings of a list that is clustered
MaxClustered == 3

\* The issuers of the clustered holdings: two spellings of one issuer, an
\* issuer of another cluster, one with keywords of two clusters and one
\* without any
ClusteredIssuers ==
    {"NVIDIA CORP", "Nvidia Corp", "SALESFORCE INC", "WARNER BROS DISCOVERY INC",
     "APPLE INC"}

\* The (issuer_name, value_usd, weight) tuples of a portfolio worth 10
HoldingTuples == {<<n, v, Div(v, 10)>> : n \in ClusteredIssuers, v \in {1, 2}}

\* The lists of up to n tuples, in any order
TupleLists(n) == UNION {[1..k -> HoldingTuples] : k \in 0..n}

\* assign_cluster(issuer_name), called once
AssignCluster ==
    /\ result = None
    /\ \E issuer_name \in Issuers :
           result' = Some([call |-> "assign_cluster",
                           issuer_name |-> issuer_name,
                           cluster |-> assign_cluster(issuer_name)])
    /\ UNCHANGED <<filings, holdings, config, exception, report>>

\* cluster_holdings(hs) and summarize_clusters(hs), called once on one list
SummarizeClusters ==
    /\ result = None
    /\ \E hs \in TupleLists(MaxClustered) :
           result' = Some([call |-> "summarize_clusters",
                           holdings |-> hs,
                           clusters |-> cluster_holdings(hs),
                           summaries |-> summarize_clusters(hs)])
    /\ UNCHANGED <<filings, holdings, config, exception, report>>

NextClustering ==
    \/ AssignCluster
    \/ SummarizeClusters

SpecClustering == Init /\ [][NextClustering]_vars

(***************************************************************************)
(* A stock held next to a put on it                                        *)
(***************************************************************************)
\* The most quarters of the fund that holds the stock and the put
MaxOptionQuarters == 3

\* The common stock and the put of one issuer: one cusip, two matching keys
OptionSecurities == {s \in Securities : s.issuer_name = "APPLE INC"}

\* The filings of a quarter, whatever the filing before: each of the two
\* positions not held or reported once, worth 1, 2 or 3
OptionFeed(rows) ==
    {b \in Batches({Holding(s, v) : s \in OptionSecurities, v \in {1, 2, 3}},
                   Cardinality(OptionSecurities)) :
        \A i, j \in 1..Len(b) : holding_key(b[i]) = holding_key(b[j]) => i = j}

NextOptions ==
    \/ report = None /\ SyncQuarter(OptionFeed(LatestRows), MaxOptionQuarters)
    \/ ReportOnce

SpecOptions == Init /\ [][NextOptions]_vars

(***************************************************************************)
(* Portfolios with more ranked positions than a ranking lists              *)
(***************************************************************************)
\* The most positions of a ranked portfolio: one more than a ranking lists
MaxRanked == 11

\* How the values of a ranked portfolio run over its positions
RankShapes == {"flat", "rising", "zero"}

RankValue(shape, i) ==
    IF shape = "flat" THEN MaxRanked + 1
    ELSE IF shape = "rising" THEN i - 1
    ELSE 0

\* The sizes of the ranked portfolios: empty, small, a full ranking, one more
RankSizes == {0, 3, MaxRanked - 1, MaxRanked}

\* The parsed filings of the ranked portfolios
RankFeed ==
    {[i \in 1..n |-> Holding(ConcSecurity(i), RankValue(shape, i))] :
        n \in RankSizes, shape \in RankShapes}

NextRank ==
    \/ IngestFiling(RankFeed)
    \/ ComputeOnce

SpecRank == Init /\ [][NextRank]_vars

(***************************************************************************)
(* A small position next to a large one, for the starter lists             *)
(***************************************************************************)
\* A starter is a position worth less than 10, or 50% to 67% of the portfolio
StarterConfigs == {Config(Frac(1, 2), Frac(2, 3), 10)}

\* The values of the small position: starters below the threshold, and 20
SmallValues == {2, 4, 5, 20}

\* The values of the large position: with a small position worth 4 the
\* total is 2000, 2001 or 4003
LargeValues == {1996, 1997, 3999}

\* The parsed filings: the small position, the large one, both or neither
StarterFeed ==
    {<<>>}
        \cup {<<Holding(SecurityA, x)>> : x \in SmallValues}
        \cup {<<Holding(SecurityB, r)>> : r \in LargeValues}
        \cup {<<Holding(SecurityA, x), Holding(SecurityB, r)>> :
                 x \in SmallValues, r \in LargeValues}

InitStarters == InitWith(StarterConfigs)

NextStarters ==
    \/ IngestFiling(StarterFeed)
    \/ ComputeOnce

SpecStarters == InitStarters /\ [][NextStarters]_vars

(***************************************************************************)
(* Vocabulary of the properties                                            *)
(***************************************************************************)
\* The filing of the fund with this period
FilingOfPeriod(p) == CHOOSE f \in FilingIds : period_of_report(f) = p

\* The snapshots the QuarterDiff qd was computed from. The holdings of an
\* ingested filing never change, so these are the inputs of the call.
PrevOf(qd) == holdings[FilingOfPeriod(qd.period_from)]

NowOf(qd) == holdings[FilingOfPeriod(qd.period_to)]

\* The matching key of a holding or of a PositionDiff
MatchingKey(r) == <<r.cusip, r.title_of_class, r.put_call>>

KeysOf(hs) == {MatchingKey(hs[i]) : i \in 1..Len(hs)}

\* No matching key occurs twice in the snapshot
UniqueKeys(hs) == Cardinality(KeysOf(hs)) = Len(hs)

ChangeTypes == {"NEW", "EXIT", "INCREASE", "DECREASE", "UNCHANGED"}

\* Every entry of the list has this change type
AllOfType(ds, change_type) == \A i \in 1..Len(ds) : ds[i].change_type = change_type

(***************************************************************************)
(* C1. compute_quarter_diff produces exactly one PositionDiff for every    *)
(* matching key (cusip, title_of_class, put_call) of the union of the      *)
(* prior and current keys, no PositionDiff for any other key, and the five *)
(* lists partition them: every entry of a list has the list's change type. *)
(***************************************************************************)
C1_OneDiffPerKey ==
    result # None =>
        LET qd == Val(result)
            ps == AllPositions(qd)
            keys == KeysOf(PrevOf(qd)) \cup KeysOf(NowOf(qd))
        IN  /\ \A k \in keys : Cardinality({i \in 1..Len(ps) : MatchingKey(ps[i]) = k}) = 1
            /\ \A i \in 1..Len(ps) : MatchingKey(ps[i]) \in keys
            /\ Len(ps) = Cardinality(keys)
            /\ AllOfType(qd.new_positions, "NEW")
            /\ AllOfType(qd.sold_out, "EXIT")
            /\ AllOfType(qd.increased, "INCREASE")
            /\ AllOfType(qd.decreased, "DECREASE")
            /\ AllOfType(qd.unchanged, "UNCHANGED")

\* A diff of three keys, one of them the put on a cusip whose stock is also
\* held, that fills three of the lists
C1_Witness ==
    /\ result # None
    /\ Len(AllPositions(Val(result))) = 3
    /\ Val(result).new_positions # <<>>
    /\ Val(result).sold_out # <<>>
    /\ Val(result).increased # <<>>

(***************************************************************************)
(* C2. The change type of every PositionDiff is one of the five values and *)
(* is decided in order: NEW iff the key is absent before and present now,  *)
(* EXIT iff present before and absent now, otherwise INCREASE, DECREASE or *)
(* UNCHANGED as delta_value_usd is > 0, < 0 or = 0. A key present on both  *)
(* sides is never NEW or EXIT, also when a value is 0.                     *)
(***************************************************************************)
C2_Classification ==
    result # None =>
        LET qd == Val(result)
            ps == AllPositions(qd)
        IN  \A i \in 1..Len(ps) :
                LET d == ps[i]
                    before == MatchingKey(d) \in KeysOf(PrevOf(qd))
                    now == MatchingKey(d) \in KeysOf(NowOf(qd))
                IN  /\ d.change_type \in ChangeTypes
                    /\ d.change_type = "NEW" <=> (~before /\ now)
                    /\ d.change_type = "EXIT" <=> (before /\ ~now)
                    /\ (before /\ now) =>
                           /\ d.change_type = "INCREASE" <=> d.delta_value_usd > 0
                           /\ d.change_type = "DECREASE" <=> d.delta_value_usd < 0
                           /\ d.change_type = "UNCHANGED" <=> d.delta_value_usd = 0

\* A key present on both sides with a value of 0 before, classified INCREASE,
\* next to a key present on both sides with a value of 0 now, classified DECREASE
C2_Witness ==
    /\ result # None
    /\ \E i \in 1..Len(Val(result).increased) :
           Val(result).increased[i].prev_value_usd = Some(0)
    /\ \E i \in 1..Len(Val(result).decreased) :
           Val(result).decreased[i].now_value_usd = Some(0)

(***************************************************************************)
(* C3. Diffing a snapshot with unique matching keys against itself: the    *)
(* position counts agree, every PositionDiff is UNCHANGED with a delta of  *)
(* 0, and new_positions, sold_out, increased, decreased, the six ranked    *)
(* lists, gross_adds_value and gross_cuts_value are empty or zero.         *)
(***************************************************************************)
\* the two snapshots hold the same rows
SameSnapshot(qd) ==
    /\ Len(PrevOf(qd)) = Len(NowOf(qd))
    /\ {PrevOf(qd)[i] : i \in 1..Len(PrevOf(qd))} = {NowOf(qd)[i] : i \in 1..Len(NowOf(qd))}
    /\ UniqueKeys(PrevOf(qd))

C3_SelfDiff ==
    (result # None /\ SameSnapshot(Val(result))) =>
        LET qd == Val(result)
        IN  /\ qd.position_count_now = qd.position_count_prev
            /\ Len(qd.unchanged) = Len(NowOf(qd))
            /\ AllOfType(qd.unchanged, "UNCHANGED")
            /\ \A i \in 1..Len(qd.unchanged) : qd.unchanged[i].delta_value_usd = 0
            /\ qd.new_positions = <<>>
            /\ qd.sold_out = <<>>
            /\ qd.increased = <<>>
            /\ qd.decreased = <<>>
            /\ qd.top_adds_by_value = <<>>
            /\ qd.top_cuts_by_value = <<>>
            /\ qd.top_adds_by_growth_rate = <<>>
            /\ qd.top_cuts_by_growth_rate = <<>>
            /\ qd.top_adds_by_portfolio_impact = <<>>
            /\ qd.top_cuts_by_portfolio_impact = <<>>
            /\ qd.gross_adds_value = 0
            /\ qd.gross_cuts_value = 0

\* A self-diff of two positions
C3_Witness ==
    /\ result # None
    /\ SameSnapshot(Val(result))
    /\ Len(Val(result).unchanged) = 2

(***************************************************************************)
(* C4. When the prior and the current snapshot share no matching key,      *)
(* every PositionDiff is NEW or EXIT, the increased, decreased and         *)
(* unchanged lists are empty, and new_positions and sold_out have one      *)
(* entry per distinct matching key of the current and of the prior         *)
(* snapshot.                                                               *)
(***************************************************************************)
Disjoint(qd) == KeysOf(PrevOf(qd)) \cap KeysOf(NowOf(qd)) = {}

OnlyNewAndExit(qd) ==
    /\ AllOfType(qd.new_positions, "NEW")
    /\ AllOfType(qd.sold_out, "EXIT")
    /\ qd.increased = <<>>
    /\ qd.decreased = <<>>
    /\ qd.unchanged = <<>>

C4_Disjoint ==
    (result # None /\ Disjoint(Val(result))) =>
        /\ OnlyNewAndExit(Val(result))
        /\ Len(Val(result).new_positions) = Cardinality(KeysOf(NowOf(Val(result))))
        /\ Len(Val(result).sold_out) = Cardinality(KeysOf(PrevOf(Val(result))))

\* C4 as stated: new_positions and sold_out have one entry per holding of
\* the current and of the prior snapshot
C4_Disjoint_PerHolding ==
    (result # None /\ Disjoint(Val(result))) =>
        /\ OnlyNewAndExit(Val(result))
        /\ Len(Val(result).new_positions) = Len(NowOf(Val(result)))
        /\ Len(Val(result).sold_out) = Len(PrevOf(Val(result)))

\* Disjoint snapshots of two holdings each, one of which reports a security twice
C4_Witness ==
    /\ result # None
    /\ Disjoint(Val(result))
    /\ Len(PrevOf(Val(result))) = 2
    /\ Len(NowOf(Val(result))) = 2
    /\ Len(Val(result).new_positions) = 1
    /\ Len(Val(result).sold_out) = 2

(***************************************************************************)
(* C6. compute_quarter_diff never raises, in particular not when a         *)
(* snapshot is empty or its values sum to 0. With an empty prior snapshot  *)
(* every position is NEW, with an empty current one every position is      *)
(* EXIT. A weight is None when the total of its side is 0, the two         *)
(* concentrations and the Herfindahl index are 0 when the current total is *)
(* 0, and portfolio_impact is defined iff total_portfolio_prev > 0.        *)
(***************************************************************************)
C6_NeverRaises ==
    /\ exception = ""
    /\ result # None =>
           LET qd == Val(result)
               ps == AllPositions(qd)
           IN  /\ PrevOf(qd) = <<>> => /\ Len(qd.new_positions) = Len(ps)
                                       /\ AllOfType(ps, "NEW")
               /\ NowOf(qd) = <<>> => /\ Len(qd.sold_out) = Len(ps)
                                      /\ AllOfType(ps, "EXIT")
               /\ qd.total_portfolio_prev = 0 =>
                      \A i \in 1..Len(ps) : ps[i].prev_weight = None
               /\ qd.total_portfolio_now = 0 =>
                      /\ \A i \in 1..Len(ps) : ps[i].now_weight = None
                      /\ qd.concentration_top5.num = 0
                      /\ qd.concentration_top10.num = 0
                      /\ qd.herfindahl_index.num = 0
               /\ \A i \in 1..Len(ps) :
                      ps[i].portfolio_impact # None <=> qd.total_portfolio_prev > 0
               /\ ~ Raises(qd)

\* A diff was returned for a non-empty prior snapshot whose values sum to 0
\* against a current snapshot that is worth something
C6_Witness ==
    /\ result # None
    /\ exception = ""
    /\ PrevOf(Val(result)) # <<>>
    /\ Val(result).total_portfolio_prev = 0
    /\ Val(result).total_portfolio_now > 0
    /\ Val(result).increased # <<>>

(***************************************************************************)
(* C7. The starter flag of every PositionDiff is true iff now_value is     *)
(* strictly below the configured starter_value_threshold or now_weight     *)
(* lies between the configured starter_weight_min and starter_weight_max,  *)
(* both bounds included; only the current side is read.                    *)
(***************************************************************************)
C7_StarterFlag ==
    result # None =>
        LET ps == AllPositions(Val(result))
        IN  \A i \in 1..Len(ps) :
                ps[i].is_starter <=>
                    \/ /\ ps[i].now_value_usd # None
                       /\ Val(ps[i].now_value_usd) < config.starter_value_threshold
                    \/ /\ ps[i].now_weight # None
                       /\ FLeq(config.starter_weight_min, Val(ps[i].now_weight))
                       /\ FLeq(Val(ps[i].now_weight), config.starter_weight_max)

\* A position whose value equals the threshold and whose weight equals
\* starter_weight_min: a starter, by its weight; next to it one that is none
C7_Witness ==
    /\ result # None
    /\ \E i \in 1..Len(AllPositions(Val(result))) :
           LET d == AllPositions(Val(result))[i]
           IN  /\ d.now_value_usd = Some(config.starter_value_threshold)
               /\ d.now_weight # None
               /\ FEq(Val(d.now_weight), config.starter_weight_min)
               /\ d.is_starter
    /\ \E i \in 1..Len(AllPositions(Val(result))) :
           LET d == AllPositions(Val(result))[i]
           IN  /\ d.now_value_usd # None
               /\ ~ d.is_starter

(***************************************************************************)
(* C5. Worked scenario: with prior = {A: 100, B: 50} and now = {A: 150,    *)
(* C: 30} the totals are 150 and 180; A is INCREASE with delta +50 and     *)
(* growth rate 0.5, B is EXIT with delta -50, C is NEW with delta +30;     *)
(* gross_adds_value is 80 and gross_cuts_value is 50.                      *)
(***************************************************************************)
IsScenario(qd) ==
    /\ Len(PrevOf(qd)) = 2
    /\ {PrevOf(qd)[i] : i \in 1..2} = {Holding(SecurityA, 100), Holding(SecurityB, 50)}
    /\ Len(NowOf(qd)) = 2
    /\ {NowOf(qd)[i] : i \in 1..2} = {Holding(SecurityA, 150), Holding(SecurityC, 30)}

C5_Scenario ==
    (result # None /\ IsScenario(Val(result))) =>
        LET qd == Val(result)
        IN  /\ qd.total_portfolio_prev = 150
            /\ qd.total_portfolio_now = 180
            /\ Len(AllPositions(qd)) = 3
            /\ Len(qd.increased) = 1
            /\ qd.increased[1].issuer_name = "A"
            /\ qd.increased[1].change_type = "INCREASE"
            /\ qd.increased[1].delta_value_usd = 50
            /\ qd.increased[1].growth_rate # None
            /\ FEq(Val(qd.increased[1].growth_rate), Frac(1, 2))
            /\ Len(qd.sold_out) = 1
            /\ qd.sold_out[1].issuer_name = "B"
            /\ qd.sold_out[1].change_type = "EXIT"
            /\ qd.sold_out[1].delta_value_usd = -50
            /\ Len(qd.new_positions) = 1
            /\ qd.new_positions[1].issuer_name = "C"
            /\ qd.new_positions[1].change_type = "NEW"
            /\ qd.new_positions[1].delta_value_usd = 30
            /\ qd.gross_adds_value = 80
            /\ qd.gross_cuts_value = 50

\* The diff of the scenario was computed
C5_Witness == result # None /\ IsScenario(Val(result))

(***************************************************************************)
(* C8. Whenever total_portfolio_now > 0 (no holding has a negative value), *)
(* 0 <= concentration_top5 <= concentration_top10 <= 1, for fewer than 5,  *)
(* for 5 to 9 and for 10 or more current positions.                        *)
(***************************************************************************)
C8_Concentration ==
    (result # None /\ Val(result).total_portfolio_now > 0) =>
        /\ FLeq(Frac(0, 1), Val(result).concentration_top5)
        /\ FLeq(Val(result).concentration_top5, Val(result).concentration_top10)
        /\ FLeq(Val(result).concentration_top10, Frac(1, 1))

\* More than ten current positions: the top 5 hold less than the top 10, and
\* the top 10 less than everything
C8_Witness ==
    /\ result # None
    /\ Val(result).position_count_now > ConcTop10
    /\ FLess(Frac(0, 1), Val(result).concentration_top5)
    /\ FLess(Val(result).concentration_top5, Val(result).concentration_top10)
    /\ FLess(Val(result).concentration_top10, Frac(1, 1))

(***************************************************************************)
(* C9. For a current snapshot of N >= 1 positions with a total > 0, the    *)
(* Herfindahl index, summed over all current positions, is >= 1/N, and     *)
(* equals 1/N when all N positions have the same value.                    *)
(***************************************************************************)
EqualValues(hs) == \A i, j \in 1..Len(hs) : hs[i].value_usd = hs[j].value_usd

C10_Deterministic ==
    [][(/\ result # None
        /\ result' # None
        /\ holdings' = holdings
        /\ filings' = filings
        /\ config' = config) => result' = result]_vars

(***************************************************************************)
(* Vocabulary of the properties of the signals                             *)
(***************************************************************************)
\* The signals of the report that have this type, in the order of the report
SignalsOfType(signal_type) ==
    LET signals == Val(report).signals
    IN  Filter(signals, {i \in 1..Len(signals) : signals[i].signal_type = signal_type})

\* The signals of this type that name the issuer of this cusip
SignalsOn(signal_type, cusip) ==
    LET signals == SignalsOfType(signal_type)
        name == cusip_to_name(Val(report).diffs, cusip)
    IN  Filter(signals, {i \in 1..Len(signals) : signals[i].holdings = <<name>>})

\* The histories detect_signals keeps for the diffs of the report, one per cusip
Histories == position_history(Val(report).diffs)

\* The change types of a history, oldest first
ChangeTypesOf(history) == List([i \in 1..Len(history) |-> history[i][4]])

\* The periods of the entries i..j of a history
PeriodsOf(history, i, j) == List([k \in 1..(j - i + 1) |-> history[i + k - 1][1]])

\* The entries i..j of the history are all INCREASE
IncreaseRun(history, i, j) ==
    /\ 1 <= i /\ i <= j /\ j <= Len(history)
    /\ \A k \in i..j : history[k][4] = "INCREASE"

\* The length of the longest run of consecutive INCREASE entries
LongestRun(history) ==
    LET lengths == {0} \cup {j - i + 1 : i \in 1..Len(history), j \in 1..Len(history)}
        runs == {n \in lengths : n = 0 \/ \E i \in 1..Len(history) : IncreaseRun(history, i, i + n - 1)}
    IN  CHOOSE n \in runs : \A m \in runs : m <= n

(***************************************************************************)
(* C11. Consistent accumulator: for every history of the report a          *)
(* consistent_accumulator signal is emitted iff the longest run of         *)
(* consecutive INCREASE entries has length >= 3; there is at most one per  *)
(* history, it reports that length, and it is strong when the length is    *)
(* >= 4 and moderate when it is 3. The history INCREASE, INCREASE,         *)
(* INCREASE, DECREASE yields one signal of length 3 and strength moderate. *)
(***************************************************************************)
C11_ConsistentAccumulator ==
    report # None =>
        /\ \A k \in 1..Len(Histories) :
               LET m == LongestRun(Histories[k].history)
                   sigs == SignalsOn("consistent_accumulator", Histories[k].cusip)
               IN  /\ Len(sigs) = IF m >= 3 THEN 1 ELSE 0
                   /\ m >= 3 =>
                          /\ sigs[1].details.consecutive_increases = m
                          /\ sigs[1].strength = IF m >= 4 THEN "strong" ELSE "moderate"
                   /\ ChangeTypesOf(Histories[k].history)
                          = <<"INCREASE", "INCREASE", "INCREASE", "DECREASE">> =>
                          /\ Len(sigs) = 1
                          /\ sigs[1].details.consecutive_increases = 3
                          /\ sigs[1].strength = "moderate"
        /\ Len(SignalsOfType("consistent_accumulator"))
               = Cardinality({k \in 1..Len(Histories) : LongestRun(Histories[k].history) >= 3})

\* A report over INCREASE, INCREASE, INCREASE, DECREASE with its moderate signal
C11_Witness ==
    /\ report # None
    /\ \E k \in 1..Len(Histories) :
           /\ ChangeTypesOf(Histories[k].history)
                  = <<"INCREASE", "INCREASE", "INCREASE", "DECREASE">>
           /\ Len(SignalsOn("consistent_accumulator", Histories[k].cusip)) = 1
           /\ SignalsOn("consistent_accumulator", Histories[k].cusip)[1].strength = "moderate"

(***************************************************************************)
(* C12. Quarter list of a consistent_accumulator signal: when the signal   *)
(* is emitted with longest run length m, its quarters are the m periods of *)
(* a longest run of INCREASE entries of the history, oldest first,         *)
(* wherever the run lies in the history.                                   *)
(***************************************************************************)
C12_AccumulatorQuarters ==
    report # None =>
        \A k \in 1..Len(Histories) :
            LET history == Histories[k].history
                m == LongestRun(history)
                sigs == SignalsOn("consistent_accumulator", Histories[k].cusip)
            IN  Len(sigs) = 1 =>
                    /\ Len(sigs[1].quarters) = m
                    /\ \E i \in 1..Len(history) :
                           /\ IncreaseRun(history, i, i + m - 1)
                           /\ sigs[1].quarters = PeriodsOf(history, i, i + m - 1)

(***************************************************************************)
(* C13. Build-then-trim: for every history of the report a build_then_trim *)
(* signal is emitted iff the history has a run of >= 2 consecutive         *)
(* INCREASE entries immediately followed by a DECREASE; at most one per    *)
(* history, for the first such DECREASE, with strength moderate and as     *)
(* quarters the periods of the whole INCREASE run before it followed by    *)
(* the period of the DECREASE. A DECREASE after a single INCREASE, and any *)
(* entry that is neither, starts the count anew.                           *)
(***************************************************************************)
\* Entry j is a DECREASE that directly follows two or more INCREASE entries
TrimAt(history, j) ==
    /\ j \in 3..Len(history)
    /\ history[j][4] = "DECREASE"
    /\ IncreaseRun(history, j - 2, j - 1)

\* The first entry of the run of INCREASE entries that ends at entry j
RunStart(history, j) ==
    CHOOSE i \in 1..j : IncreaseRun(history, i, j) /\ ~ IncreaseRun(history, i - 1, j)

C13_BuildThenTrim ==
    report # None =>
        \A k \in 1..Len(Histories) :
            LET history == Histories[k].history
                trims == {j \in 1..Len(history) : TrimAt(history, j)}
                sigs == SignalsOn("build_then_trim", Histories[k].cusip)
            IN  /\ Len(sigs) = IF trims # {} THEN 1 ELSE 0
                /\ trims # {} =>
                       LET j == CHOOSE x \in trims : \A y \in trims : x <= y
                           i == RunStart(history, j - 1)
                       IN  /\ sigs[1].strength = "moderate"
                           /\ sigs[1].quarters = PeriodsOf(history, i, j)
                           /\ sigs[1].details.build_quarters = j - i
                /\ ChangeTypesOf(history) = <<"INCREASE", "INCREASE", "INCREASE", "DECREASE">> =>
                       /\ Len(sigs) = 1
                       /\ sigs[1].quarters = PeriodsOf(history, 1, 4)

\* A report over a history with two build-then-trim patterns and one signal
C13_Witness ==
    /\ report # None
    /\ \E k \in 1..Len(Histories) :
           /\ Cardinality({j \in 1..Len(Histories[k].history) :
                              TrimAt(Histories[k].history, j)}) >= 2
           /\ Len(SignalsOn("build_then_trim", Histories[k].cusip)) = 1

(***************************************************************************)
(* C14. One-quarter probe: for every NEW entry i of a history one          *)
(* one_quarter_probe signal is emitted iff an EXIT entry exists at i+1 or  *)
(* i+2; it uses the first such entry j, has strength weak, quarters        *)
(* [period(i), period(j)] and quarters_held = j - i + 1 (2 or 3). A NEW    *)
(* with no EXIT among the next two entries emits nothing; every NEW/EXIT   *)
(* cycle of a history emits its own signal.                                *)
(***************************************************************************)
\* The first EXIT among the two entries after entry i, 0 when there is none
ProbeExit(history, i) ==
    LET exits == {j \in {i + 1, i + 2} : j <= Len(history) /\ history[j][4] = "EXIT"}
    IN  IF exits = {} THEN 0 ELSE CHOOSE j \in exits : \A x \in exits : j <= x

\* The NEW entries of the history that are followed by an EXIT within two entries
Probes(history) ==
    SelectIdx({i \in 1..Len(history) : history[i][4] = "NEW" /\ ProbeExit(history, i) # 0},
              Len(history))

C14_OneQuarterProbe ==
    report # None =>
        \A k \in 1..Len(Histories) :
            LET history == Histories[k].history
                probes == Probes(history)
                sigs == SignalsOn("one_quarter_probe", Histories[k].cusip)
            IN  /\ Len(sigs) = Len(probes)
                /\ \A n \in 1..Len(probes) :
                       LET i == probes[n]
                           j == ProbeExit(history, i)
                       IN  /\ sigs[n].strength = "weak"
                           /\ sigs[n].quarters = <<history[i][1], history[j][1]>>
                           /\ sigs[n].details.quarters_held = j - i + 1
                           /\ sigs[n].details.quarters_held \in {2, 3}

\* A report over NEW, EXIT, NEW, (any), EXIT with a probe held 2 quarters and a
\* probe held 3 quarters
C14_Witness ==
    /\ report # None
    /\ \E k \in 1..Len(Histories) :
           LET sigs == SignalsOn("one_quarter_probe", Histories[k].cusip)
           IN  /\ Len(Histories[k].history) = 5
               /\ SubSeq(ChangeTypesOf(Histories[k].history), 1, 2) = <<"NEW", "EXIT">>
               /\ Len(sigs) = 2
               /\ sigs[1].details.quarters_held = 2
               /\ sigs[2].details.quarters_held = 3

ClusterNames == {CLUSTERS[c].cluster : c \in 1..Len(CLUSTERS)}

\* The issuer names of the new starters of a diff that are assigned to cluster c
StartersIn(diff, c) ==
    LET own == Filter(diff.new_starters,
                      {i \in 1..Len(diff.new_starters) :
                          assign_cluster(diff.new_starters[i].issuer_name) = c})
    IN  List([i \in 1..Len(own) |-> own[i].issuer_name])

ThemesOf(diff, c) ==
    LET sigs == SignalsOfType("theme_emergence")
    IN  Filter(sigs, {k \in 1..Len(sigs) :
                         sigs[k].quarters = <<diff.period_to>> /\ sigs[k].details.cluster = c})

C16_ThemeEmergence ==
    report # None =>
        LET diffs == Val(report).diffs
            sigs == SignalsOfType("theme_emergence")
        IN  /\ \A d \in 1..Len(diffs) : \A c \in ClusterNames :
                   LET members == StartersIn(diffs[d], c)
                       themes == ThemesOf(diffs[d], c)
                   IN  IF Len(members) >= 3
                       THEN /\ Len(themes) = 1
                            /\ themes[1].holdings = members
                            /\ themes[1].details.count = Len(members)
                            /\ themes[1].strength =
                                   IF Len(members) >= 5 THEN "strong" ELSE "moderate"
                       ELSE themes = <<>>
            /\ \A k \in 1..Len(sigs) :
                   /\ sigs[k].details.cluster \in ClusterNames
                   /\ \E d \in 1..Len(diffs) : sigs[k].quarters = <<diffs[d].period_to>>

\* Two diffs: 2 semiconductor starters in the older one, and in the newer one
\* 2 more, 3 cloud starters and 3 uncategorized ones; the only signal is that
\* of the cloud starters
C16_Witness ==
    /\ report # None
    /\ Len(Val(report).diffs) = 2
    /\ LET diffs == Val(report).diffs
           sigs == SignalsOfType("theme_emergence")
       IN  /\ Len(StartersIn(diffs[2], "AI/Semiconductors")) = 2
           /\ Len(StartersIn(diffs[1], "AI/Semiconductors")) = 2
           /\ Len(StartersIn(diffs[1], "Other")) = 3
           /\ Len(StartersIn(diffs[1], "Cloud/SaaS")) = 3
           /\ Len(sigs) = 1
           /\ sigs[1].details.cluster = "Cloud/SaaS"
           /\ sigs[1].strength = "moderate"

(***************************************************************************)
(* C17. Order of the signals: in the list detect_signals returns every     *)
(* strong signal comes before every moderate one and every moderate before *)
(* every weak one; signals of equal strength are in emission order, that   *)
(* is consistent_accumulator, build_then_trim, one_quarter_probe,          *)
(* concentration_shift, theme_emergence, and within one detector the order *)
(* in which it emitted them. No signal is dropped or duplicated.           *)
(***************************************************************************)
Detectors ==
    <<"consistent_accumulator", "build_then_trim", "one_quarter_probe",
      "concentration_shift", "theme_emergence">>

DetectorRank(signal_type) == CHOOSE r \in 1..Len(Detectors) : Detectors[r] = signal_type

Strengths == {"strong", "moderate", "weak"}

StrengthRank(strength) == CHOOSE r \in 0..2 : <<"strong", "moderate", "weak">>[r + 1] = strength

OfStrength(signals, strength) ==
    Filter(signals, {i \in 1..Len(signals) : signals[i].strength = strength})

C17_SignalOrder ==
    report # None =>
        LET signals == Val(report).signals
            emitted == EmittedSignals(Val(report).diffs)
        IN  /\ \A i, j \in 1..Len(signals) :
                   i < j =>
                       /\ signals[i].strength \in Strengths
                       /\ signals[j].strength \in Strengths
                       /\ StrengthRank(signals[i].strength) <= StrengthRank(signals[j].strength)
                       /\ signals[i].strength = signals[j].strength =>
                              DetectorRank(signals[i].signal_type)
                                  <= DetectorRank(signals[j].signal_type)
            /\ Len(signals) = Len(emitted)
            /\ \A st \in Strengths : OfStrength(signals, st) = OfStrength(emitted, st)

\* A report whose signals come from all five detectors, in the three
\* strengths, a weak signal having been emitted before a strong one
C17_Witness ==
    /\ report # None
    /\ LET signals == Val(report).signals
           emitted == EmittedSignals(Val(report).diffs)
       IN  /\ \A r \in 1..Len(Detectors) :
                  \E i \in 1..Len(signals) : signals[i].signal_type = Detectors[r]
           /\ \A st \in Strengths : \E i \in 1..Len(signals) : signals[i].strength = st
           /\ \E i, j \in 1..Len(emitted) :
                  i < j /\ emitted[i].strength = "weak" /\ emitted[j].strength = "strong"
           /\ \E i, j \in 1..Len(signals) :
                  /\ i < j
                  /\ signals[i].strength = signals[j].strength
                  /\ signals[i].signal_type # signals[j].signal_type

(***************************************************************************)
(* C18. Starter-to-scale: for every non-empty sequence of diffs,           *)
(* detect_starter_to_scale reports exactly the securities that are among   *)
(* the new_starters of at least one diff and whose state in the newest     *)
(* diff has now_weight > 0.005 or now_value_usd > 20,000,000, both strict. *)
(* For each of them start_value is its value in the oldest diff where it   *)
(* was a new starter, growth_rate is (current_value - start_value) /       *)
(* start_value, and +infinity when start_value is 0; nothing is divided by *)
(* zero.                                                                   *)
(***************************************************************************)
\* The diffs of the report in which this cusip is a new starter, oldest last
StarterDiffs(diffs, cusip) ==
    {d \in 1..Len(diffs) :
        \E i \in 1..Len(diffs[d].new_starters) : diffs[d].new_starters[i].cusip = cusip}

\* The value at which this cusip was first a new starter
FirstStarterValue(diffs, cusip) ==
    LET own == StarterDiffs(diffs, cusip)
        d == CHOOSE e \in own : \A g \in own : g <= e
        ns == diffs[d].new_starters
    IN  OrZero(ns[CHOOSE i \in 1..Len(ns) : ns[i].cusip = cusip].now_value_usd)

\* The state of this cusip in the newest diff exceeds a scale threshold
ScaledNow(diffs, cusip) ==
    \E i \in 1..Len(AllPositions(diffs[1])) :
        LET pos == AllPositions(diffs[1])[i]
        IN  /\ pos.cusip = cusip
            /\ \/ pos.now_weight # None /\ FLess(Frac(1, 200), Val(pos.now_weight))
               \/ pos.now_value_usd # None /\ Val(pos.now_value_usd) > ScaleValue

Cusips(diffs) ==
    UNION {{AllPositions(diffs[d])[i].cusip : i \in 1..Len(AllPositions(diffs[d]))} :
              d \in 1..Len(diffs)}

C18_StarterToScale ==
    (report # None /\ Val(report).diffs # <<>>) =>
        LET diffs == Val(report).diffs
            scaled == Val(report).starter_to_scale
        IN  /\ \A cusip \in Cusips(diffs) :
                   (StarterDiffs(diffs, cusip) # {} /\ ScaledNow(diffs, cusip))
                       <=> \E k \in 1..Len(scaled) : scaled[k].cusip = cusip
            /\ \A k \in 1..Len(scaled) :
                   /\ scaled[k].cusip \in Cusips(diffs)
                   /\ \A l \in 1..Len(scaled) : scaled[l].cusip = scaled[k].cusip => l = k
                   /\ StarterDiffs(diffs, scaled[k].cusip) # {}
                   /\ scaled[k].start_value = FirstStarterValue(diffs, scaled[k].cusip)
                   /\ scaled[k].growth_rate =
                          IF scaled[k].start_value = 0 THEN Infinity
                          ELSE Frac(scaled[k].current_value - scaled[k].start_value,
                                    scaled[k].start_value)
                   /\ scaled[k].growth_rate # ZeroDivisionError

(***************************************************************************)
(* C19. assign_cluster is first-match-wins over the ordered cluster table: *)
(* it returns the first cluster, in table order, with at least one keyword *)
(* that occurs in the issuer name when case is ignored, and "Other" iff no *)
(* keyword of any cluster occurs. When keywords of two clusters occur, the *)
(* earlier cluster is returned, wherever the keywords lie in the name and  *)
(* however long they are.                                                  *)
(***************************************************************************)
\* The start of the first occurrence of a keyword in a name, case ignored
\* (0 when it does not occur)
Occurrence(keyword, name) ==
    LET at == {i \in 1..(Len(name) - Len(keyword) + 1) :
                  upper(SubSeq(name, i, i + Len(keyword) - 1)) = upper(keyword)}
    IN  IF at = {} THEN 0 ELSE CHOOSE i \in at : \A j \in at : i <= j

\* The clusters of the table with a keyword that occurs in the name
MatchingClusters ==
    [name \in Issuers |->
        {c \in 1..Len(CLUSTERS) :
            \E k \in 1..Len(CLUSTERS[c].keywords) : Occurrence(CLUSTERS[c].keywords[k], name) > 0}]

\* The earliest occurrence in the name of a keyword of cluster c
FirstOccurrence(c, name) ==
    LET at == {Occurrence(CLUSTERS[c].keywords[k], name) : k \in 1..Len(CLUSTERS[c].keywords)} \ {0}
    IN  CHOOSE i \in at : \A j \in at : i <= j

AssignedCluster == result # None /\ Val(result).call = "assign_cluster"

C19_FirstMatchWins ==
    AssignedCluster =>
        LET matching == MatchingClusters[Val(result).issuer_name]
        IN  /\ Val(result).cluster = "Other" <=> matching = {}
            /\ matching # {} =>
                   Val(result).cluster =
                       CLUSTERS[CHOOSE c \in matching : \A d \in matching : c <= d].cluster

\* A name with keywords of two clusters, the keyword of the later cluster
\* coming first in the name, and not in upper case
C19_Witness ==
    /\ AssignedCluster
    /\ LET name == Val(result).issuer_name
           matching == MatchingClusters[name]
       IN  \E c, d \in matching :
               /\ c < d
               /\ FirstOccurrence(d, name) < FirstOccurrence(c, name)
               /\ Val(result).cluster = CLUSTERS[c].cluster
               /\ upper(name) # name

(***************************************************************************)
(* C20. cluster_holdings puts every holding of its input in exactly one    *)
(* cluster list, the list of the cluster assign_cluster names for its      *)
(* issuer ("Other" when no keyword matches), each list sorted by value     *)
(* descending. summarize_clusters returns one row per non-empty cluster    *)
(* with the total value, the total weight and the count of the holdings of *)
(* the cluster, rows sorted by total value descending; the counts add up   *)
(* to the number of holdings and the total values to the total of the      *)
(* input.                                                                  *)
(***************************************************************************)
Summarized == result # None /\ Val(result).call = "summarize_clusters"

\* How often tuple t occurs in the list
Count(list, t) == Cardinality({i \in 1..Len(list) : list[i] = t})

Descending(values) == \A i, j \in 1..Len(values) : i < j => values[i] >= values[j]

MatchingKeysOf(diffs) ==
    UNION {{MatchingKey(AllPositions(diffs[d])[i]) : i \in 1..Len(AllPositions(diffs[d]))} :
              d \in 1..Len(diffs)}

\* The rank of a period among the diffs, the oldest being 1
PeriodRank(diffs, period) ==
    CHOOSE r \in 1..Len(diffs) : Reverse(diffs)[r].period_to = period

C21_HistoryPerKey ==
    report # None =>
        LET diffs == Val(report).diffs
            accumulators == SignalsOfType("consistent_accumulator")
        IN  /\ Len(Histories) = Cardinality(MatchingKeysOf(diffs))
            /\ \A k \in 1..Len(Histories) :
                   LET history == Histories[k].history
                   IN  /\ Len(history) <= Len(diffs)
                       /\ \A i, j \in 1..Len(history) :
                              i < j => PeriodRank(diffs, history[i][1])
                                           < PeriodRank(diffs, history[j][1])
            /\ \A a \in 1..Len(accumulators) :
                   accumulators[a].details.consecutive_increases <= Len(diffs)

(***************************************************************************)
(* C22. Weights: for every PositionDiff prev_weight is prev_value /        *)
(* total_portfolio_prev and now_weight is now_value / total_portfolio_now, *)
(* and a weight is None exactly when the total of its side is 0 or the     *)
(* position is absent on that side. A position present with a value of 0   *)
(* in a portfolio with a total > 0 has the weight 0, not None.             *)
(***************************************************************************)
\* The weight of a side is as the claim defines it
WeightDefined(weight, value, total) ==
    /\ weight = None <=> (value = None \/ total = 0)
    /\ weight # None => FEq(Val(weight), Frac(Val(value), total))

C22_Weights ==
    result # None =>
        LET qd == Val(result)
            ps == AllPositions(qd)
        IN  \A i \in 1..Len(ps) :
                /\ WeightDefined(ps[i].prev_weight, ps[i].prev_value_usd, qd.total_portfolio_prev)
                /\ WeightDefined(ps[i].now_weight, ps[i].now_value_usd, qd.total_portfolio_now)

RanksByValue(top, ps, sign) ==
    LET eligible == {i \in 1..Len(ps) : sign * ps[i].delta_value_usd > 0}
    IN  /\ Len(top) = Min(TopN, Cardinality(eligible))
        /\ \A k \in 1..Len(top) : \E i \in eligible : ps[i] = top[k]
        /\ \A k, l \in 1..Len(top) : top[k] = top[l] => k = l
        /\ \A k \in 1..(Len(top) - 1) :
               sign * top[k].delta_value_usd >= sign * top[k + 1].delta_value_usd
        /\ \A i \in eligible :
               (\A k \in 1..Len(top) : top[k] # ps[i]) =>
                   \A k \in 1..Len(top) :
                       sign * ps[i].delta_value_usd <= sign * top[k].delta_value_usd

C24_TopByValue ==
    result # None =>
        LET qd == Val(result)
            ps == AllPositions(qd)
            adds == qd.top_adds_by_value
            cuts == qd.top_cuts_by_value
        IN  /\ RanksByValue(adds, ps, 1)
            /\ RanksByValue(cuts, ps, -1)
            /\ \A k \in 1..Len(adds), l \in 1..Len(cuts) : adds[k] # cuts[l]
            /\ \A i \in 1..Len(ps) :
                   ps[i].delta_value_usd = 0 =>
                       /\ \A k \in 1..Len(adds) : adds[k] # ps[i]
                       /\ \A l \in 1..Len(cuts) : cuts[l] # ps[i]

\* More than ten positions were added to: the ranking lists ten of them, a NEW
\* position among them, and leaves out one with a strictly smaller delta
C24_Witness ==
    /\ result # None
    /\ LET qd == Val(result)
           ps == AllPositions(qd)
           adds == qd.top_adds_by_value
       IN  /\ Len(adds) = TopN
           /\ \E k \in 1..Len(adds) : adds[k].change_type = "NEW"
           /\ \E k \in 1..Len(adds) : adds[k].change_type = "INCREASE"
           /\ \E i \in 1..Len(ps) :
                  /\ ps[i].delta_value_usd > 0
                  /\ \A k \in 1..Len(adds) :
                         /\ adds[k] # ps[i]
                         /\ ps[i].delta_value_usd < adds[k].delta_value_usd

(***************************************************************************)
(* C25. Eligibility for the relative rankings: top_adds_by_growth_rate and *)
(* top_cuts_by_growth_rate contain no NEW position and no position whose   *)
(* growth_rate is None, each holds at most 10 entries and is ordered by    *)
(* growth_rate (largest first for the adds, most negative first for the    *)
(* cuts); top_adds_by_portfolio_impact and top_cuts_by_portfolio_impact    *)
(* contain only positions with a defined portfolio_impact, so both are     *)
(* empty whenever total_portfolio_prev is 0.                               *)
(***************************************************************************)
\* top lists at most ten positions of ps that have a growth rate and are not
\* NEW, the largest sign * growth_rate first
RanksByGrowthRate(top, ps, sign) ==
    /\ Len(top) <= TopN
    /\ \A k \in 1..Len(top) :
           /\ \E i \in 1..Len(ps) : ps[i] = top[k]
           /\ top[k].change_type # "NEW"
           /\ top[k].growth_rate # None
    /\ \A k \in 1..(Len(top) - 1) :
           IF sign > 0
           THEN FLeq(Val(top[k + 1].growth_rate), Val(top[k].growth_rate))
           ELSE FLeq(Val(top[k].growth_rate), Val(top[k + 1].growth_rate))

C25_RelativeRankings ==
    result # None =>
        LET qd == Val(result)
            ps == AllPositions(qd)
            by_impact == qd.top_adds_by_portfolio_impact \o qd.top_cuts_by_portfolio_impact
        IN  /\ RanksByGrowthRate(qd.top_adds_by_growth_rate, ps, 1)
            /\ RanksByGrowthRate(qd.top_cuts_by_growth_rate, ps, -1)
            /\ \A k \in 1..Len(by_impact) : by_impact[k].portfolio_impact # None
            /\ qd.total_portfolio_prev = 0 => by_impact = <<>>

\* Among the positions added to are a NEW one and one that rose from a
\* reported value of 0, which the growth ranking leaves out, and two with
\* different growth rates, which it lists
C25_Witness ==
    /\ result # None
    /\ LET qd == Val(result)
           adds == qd.top_adds_by_value
           top == qd.top_adds_by_growth_rate
       IN  /\ \E k \in 1..Len(adds) : adds[k].change_type = "NEW"
           /\ \E k \in 1..Len(adds) :
                  /\ adds[k].change_type = "INCREASE"
                  /\ adds[k].growth_rate = None
           /\ Len(top) >= 2
           /\ ~ FEq(Val(top[1].growth_rate), Val(top[Len(top)].growth_rate))

(***************************************************************************)
(* C26. Concentration definition: concentration_top5 (concentration_top10) *)
(* equals the sum of the 5 (10) largest current-side weights, or the sum   *)
(* of all current-side weights when fewer than 5 (10) positions exist,     *)
(* where each weight is the holding's value divided by the sum of the      *)
(* current holdings' values as computed at diff time; with no current      *)
(* holdings concentration_top5, concentration_top10 and herfindahl_index   *)
(* are all 0.0. With 1 to 5 current positions and a positive total,        *)
(* concentration_top5 = concentration_top10 = 1.                           *)
(***************************************************************************)
RECURSIVE LargestSum(_, _)
\* The sum of the n largest of the values vs, of all of them if there are fewer
LargestSum(vs, n) ==
    IF n = 0 \/ vs = <<>> THEN 0
    ELSE LET m == CHOOSE i \in 1..Len(vs) : \A j \in 1..Len(vs) : vs[j] <= vs[i]
         IN  vs[m] + LargestSum(SubSeq(vs, 1, m - 1) \o SubSeq(vs, m + 1, Len(vs)), n - 1)

\* The reported values of the holdings hs
ValuesOf(hs) == List([i \in 1..Len(hs) |-> hs[i].value_usd])

C26_ConcentrationDefinition ==
    result # None =>
        LET qd == Val(result)
            vs == ValuesOf(NowOf(qd))
            total == ISum(vs)
        IN  /\ qd.total_portfolio_now = total
            /\ total > 0 =>
                   /\ FEq(qd.concentration_top5, Frac(LargestSum(vs, ConcTop5), total))
                   /\ FEq(qd.concentration_top10, Frac(LargestSum(vs, ConcTop10), total))
            /\ vs = <<>> =>
                   /\ FEq(qd.concentration_top5, Frac(0, 1))
                   /\ FEq(qd.concentration_top10, Frac(0, 1))
                   /\ FEq(qd.herfindahl_index, Frac(0, 1))
            /\ (total > 0 /\ Len(vs) <= ConcTop5) =>
                   /\ FEq(qd.concentration_top5, Frac(1, 1))
                   /\ FEq(qd.concentration_top10, Frac(1, 1))

\* More than ten current positions of different values: the five largest
\* hold more than their share by count, the ten largest more than the five
C26_Witness ==
    /\ result # None
    /\ LET qd == Val(result)
           vs == ValuesOf(NowOf(qd))
       IN  /\ Len(vs) > ConcTop10
           /\ \A i, j \in 1..Len(vs) : vs[i] = vs[j] => i = j
           /\ FLess(Frac(ConcTop5, Len(vs)), qd.concentration_top5)
           /\ FLess(qd.concentration_top5, qd.concentration_top10)

(***************************************************************************)
(* C27. Starter lists: new_starters is exactly the set of NEW positions    *)
(* whose is_starter flag is true, and increased_starters is exactly the    *)
(* set of INCREASE positions with is_starter true and (growth_rate >= 1.0  *)
(* or portfolio_impact >= 0.0005), both bounds inclusive. An INCREASE      *)
(* starter meeting only one of the two thresholds is retained; one meeting *)
(* neither is dropped; no EXIT, DECREASE or UNCHANGED position ever        *)
(* appears in either list.                                                 *)
(***************************************************************************)
\* The set of the entries of a list
Range(s) == {s[i] : i \in 1..Len(s)}

\* The growth rate of p reaches 100%
DoublesOrMore(p) == p.growth_rate # None /\ FLeq(Frac(1, 1), Val(p.growth_rate))

\* The portfolio impact of p reaches 0.05%
MovesPortfolio(p) == p.portfolio_impact # None /\ FLeq(Frac(1, 2000), Val(p.portfolio_impact))

C27_StarterLists ==
    result # None =>
        LET qd == Val(result)
            ps == Range(AllPositions(qd))
        IN  /\ Range(qd.new_starters) =
                   {p \in ps : p.change_type = "NEW" /\ p.is_starter}
            /\ Range(qd.increased_starters) =
                   {p \in ps : /\ p.change_type = "INCREASE"
                               /\ p.is_starter
                               /\ (DoublesOrMore(p) \/ MovesPortfolio(p))}
            /\ Cardinality(Range(qd.new_starters)) = Len(qd.new_starters)
            /\ Cardinality(Range(qd.increased_starters)) = Len(qd.increased_starters)
            /\ \A p \in Range(qd.new_starters) \cup Range(qd.increased_starters) :
                   p.change_type \notin {"EXIT", "DECREASE", "UNCHANGED"}

\* An INCREASE starter whose growth rate is below 100% and whose portfolio
\* impact is exactly 0.05% is retained
C27_Witness ==
    /\ result # None
    /\ \E p \in Range(Val(result).increased_starters) :
           /\ ~ DoublesOrMore(p)
           /\ FEq(Val(p.portfolio_impact), Frac(5, 10000))

(***************************************************************************)
(* C28. compute_all_diffs returns the empty list when the fund has fewer   *)
(* than 2 filings; for N >= 2 filings (supplied ordered by period          *)
(* descending) it returns exactly N-1 QuarterDiffs ordered from most       *)
(* recent to oldest, where diff i compares filing i+1 (prior) against      *)
(* filing i (current), so consecutive diffs chain: diffs[i].period_from =  *)
(* diffs[i+1].period_to, and every filing except the newest and the oldest *)
(* is used once as 'now' and once as 'prior'.                              *)
(***************************************************************************)
\* The quarter of the i-th filing of a fund with n filings, most recent first
QuarterOf(i, n) == n + 1 - i

\* Diff qd compares the filing of quarter prev with the filing of quarter now
Compares(qd, prev, now) ==
    /\ qd.period_from = period_of_report(prev)
    /\ qd.period_to = period_of_report(now)
    /\ qd.total_portfolio_prev = ISum(ValuesOf(holdings[prev]))
    /\ qd.total_portfolio_now = ISum(ValuesOf(holdings[now]))
    /\ qd.position_count_prev = Len(holdings[prev])
    /\ qd.position_count_now = Len(holdings[now])

C28_AllDiffs ==
    report # None =>
        LET diffs == Val(report).diffs
            n == Cardinality(filings)
        IN  /\ n < 2 => diffs = <<>>
            /\ n >= 2 => Len(diffs) = n - 1
            /\ \A i \in 1..Len(diffs) :
                   Compares(diffs[i], QuarterOf(i + 1, n), QuarterOf(i, n))
            /\ \A i \in 1..(Len(diffs) - 1) : diffs[i].period_from = diffs[i + 1].period_to
            /\ \A f \in filings :
                   /\ Cardinality({i \in 1..Len(diffs) : diffs[i].period_to = period_of_report(f)})
                          = IF f = 1 THEN 0 ELSE 1
                   /\ Cardinality({i \in 1..Len(diffs) : diffs[i].period_from = period_of_report(f)})
                          = IF f = n THEN 0 ELSE 1

\* A fund of at least four filings with different totals: the report holds
\* three or more chained diffs
C28_Witness ==
    /\ report # None
    /\ Cardinality(filings) >= 4
    /\ Len(Val(report).diffs) = Cardinality(filings) - 1
    /\ \A i \in 1..Len(Val(report).diffs) :
           Val(report).diffs[i].total_portfolio_prev # Val(report).diffs[i].total_portfolio_now

(***************************************************************************)
(* C29. Value conservation: for any prior and current snapshots with no    *)
(* duplicate matching key inside one snapshot, gross_adds_value -          *)
(* gross_cuts_value = total_portfolio_now - total_portfolio_prev,          *)
(* gross_adds_value and gross_cuts_value are both >= 0, and the sum of     *)
(* delta_value_usd over all PositionDiffs equals the same difference of    *)
(* totals.                                                                 *)
(***************************************************************************)
\* The deltas of the positions ps
DeltasOf(ps) == List([i \in 1..Len(ps) |-> ps[i].delta_value_usd])

C29_ValueConservation ==
    (result # None /\ UniqueKeys(PrevOf(Val(result))) /\ UniqueKeys(NowOf(Val(result)))) =>
        LET qd == Val(result)
            change == qd.total_portfolio_now - qd.total_portfolio_prev
        IN  /\ qd.gross_adds_value - qd.gross_cuts_value = change
            /\ qd.gross_adds_value >= 0
            /\ qd.gross_cuts_value >= 0
            /\ ISum(DeltasOf(AllPositions(qd))) = change

\* Snapshots without duplicate keys: one position is sold out, another is
\* added to, and the portfolio shrinks
C29_Witness ==
    /\ result # None
    /\ UniqueKeys(PrevOf(Val(result)))
    /\ UniqueKeys(NowOf(Val(result)))
    /\ Val(result).sold_out # <<>>
    /\ Val(result).gross_adds_value > 0
    /\ Val(result).gross_cuts_value > Val(result).gross_adds_value

(***************************************************************************)
(* C30. Short sequences: detect_signals on an empty sequence returns the   *)
(* empty list, and on a sequence of exactly one QuarterDiff it emits no    *)
(* consistent_accumulator, build_then_trim, one_quarter_probe or           *)
(* concentration_shift signal, because every history then has a single     *)
(* entry and the concentration comparison needs two diffs; the only signal *)
(* type a single diff can produce is theme_emergence.                      *)
(***************************************************************************)
C30_ShortSequences ==
    report # None =>
        LET diffs == Val(report).diffs
            signals == Val(report).signals
        IN  /\ diffs = <<>> => signals = <<>>
            /\ Len(diffs) = 1 =>
                   \A s \in 1..Len(signals) : signals[s].signal_type = "theme_emergence"

====
